---- MODULE Spec2Model ----
(***************************************************************************)
(* The caching layer of the property-listing service: the read-through     *)
(* cache of properties/utils.py and properties/views.py, the signal-driven *)
(* invalidation of properties/signals.py and the bulk creation of          *)
(* properties/models.py, run by concurrent request threads against one     *)
(* shared cache store and one database.                                    *)
(*                                                                         *)
(* Strings are sequences of one-character strings, so that key             *)
(* construction (lower(), replace(), str()) and glob matching are computed *)
(* character by character.                                                 *)
(***************************************************************************)
EXTENDS Integers, Sequences, FiniteSets, TLC

\* ------------------------------------------------------------------ bounds
\* Number of requests started in one behaviour when requests run concurrently.
MaxOps == 2
\* Number of requests started in one behaviour when they run one at a time.
MaxSeqOps == 3
\* Number of primary keys the database hands out (ids 1..MaxId, never reused).
MaxId == 2

Threads == {"t1", "t2"}

\* ----------------------------------------------------------- string tools
UpperAlpha == <<"A", "B", "C", "D", "E", "F", "G", "H", "I", "J", "K", "L", "M", "N", "O", "P", "Q", "R", "S", "T", "U", "V", "W", "X", "Y", "Z">>
LowerAlpha == <<"a", "b", "c", "d", "e", "f", "g", "h", "i", "j", "k", "l", "m", "n", "o", "p", "q", "r", "s", "t", "u", "v", "w", "x", "y", "z">>
Digit == <<"0", "1", "2", "3", "4", "5", "6", "7", "8", "9">>

\* str.lower() on one character
LowerChar(c) ==
  IF \E i \in 1..Len(UpperAlpha) : UpperAlpha[i] = c
  THEN LowerAlpha[CHOOSE i \in 1..Len(UpperAlpha) : UpperAlpha[i] = c]
  ELSE c

\* str.lower()
Lower(s) == [i \in 1..Len(s) |-> LowerChar(s[i])]

\* str.replace(old, new) for a one-character old and new
Replace(s, old, new) == [i \in 1..Len(s) |-> IF s[i] = old THEN new ELSE s[i]]

\* str(n) for a non-negative int
RECURSIVE StrInt(_)
StrInt(n) == IF n < 10 THEN <<Digit[n + 1]>> ELSE StrInt(n \div 10) \o <<Digit[(n % 10) + 1]>>

\* A numeric argument as the caller wrote it: an int (500000) or a float
\* with an integral value (500000.0).  str() of a float appends ".0".
IntArg(n) == [val |-> n, form |-> "int"]
FloatArg(n) == [val |-> n, form |-> "float"]
StrNum(x) == IF x.form = "int" THEN StrInt(x.val) ELSE StrInt(x.val) \o <<".", "0">>

RECURSIVE IsPrefix(_, _)
IsPrefix(p, s) ==
  IF p = <<>> THEN TRUE
  ELSE s # <<>> /\ Head(p) = Head(s) /\ IsPrefix(Tail(p), Tail(s))

\* needle in hay
RECURSIVE Contains(_, _)
Contains(hay, needle) ==
  IF IsPrefix(needle, hay) THEN TRUE
  ELSE hay # <<>> /\ Contains(Tail(hay), needle)

\* The database's icontains lookup: case-insensitive containment.
IContains(hay, needle) == Contains(Lower(hay), Lower(needle))

\* Glob matching of the store's KEYS command; '*' matches any run of
\* characters (the only metacharacter the patterns of this program use).
RECURSIVE GlobMatch(_, _)
GlobMatch(p, s) ==
  IF p = <<>> THEN s = <<>>
  ELSE IF Head(p) = "*"
       THEN GlobMatch(Tail(p), s) \/ (s # <<>> /\ GlobMatch(p, Tail(s)))
       ELSE s # <<>> /\ Head(s) = Head(p) /\ GlobMatch(Tail(p), Tail(s))

Range(f) == {f[i] : i \in DOMAIN f}

\* All orderings of a finite set, as sequences without repetition.
Orderings(S) ==
  {f \in [1..Cardinality(S) -> S] : \A i, j \in 1..Cardinality(S) : i # j => f[i] # f[j]}

\* ------------------------------------------------------------- key scheme
ALL_PROPERTIES == <<"a", "l", "l", "_", "p", "r", "o", "p", "e", "r", "t", "i", "e", "s">>
META_SUFFIX == <<"_", "m", "e", "t", "a">>
LOCATION_PREFIX == <<"p", "r", "o", "p", "e", "r", "t", "i", "e", "s", "_", "l", "o", "c", "a", "t", "i", "o", "n", "_">>
PRICE_PREFIX == <<"p", "r", "o", "p", "e", "r", "t", "i", "e", "s", "_", "p", "r", "i", "c", "e", "_">>
PROPERTY_PREFIX == <<"p", "r", "o", "p", "e", "r", "t", "y", "_">>
PROPERTIES_LIST == <<"p", "r", "o", "p", "e", "r", "t", "i", "e", "s", "_", "l", "i", "s", "t">>
LAST_CACHE_INVALIDATION == <<"l", "a", "s", "t", "_", "c", "a", "c", "h", "e", "_", "i", "n", "v", "a", "l", "i", "d", "a", "t", "i", "o", "n">>
CACHE_INVALIDATION_COUNT == <<"c", "a", "c", "h", "e", "_", "i", "n", "v", "a", "l", "i", "d", "a", "t", "i", "o", "n", "_", "c", "o", "u", "n", "t">>

\* f"{cache_key}_meta"
MetaKey(key) == key \o META_SUFFIX

\* f'properties_location_{location.lower().replace(" ", "_")}'
LocationKey(location) == LOCATION_PREFIX \o Replace(Lower(location), " ", "_")

\* f'properties_price_{min_price}_{max_price}'
PriceRangeKey(min_price, max_price) ==
  PRICE_PREFIX \o StrNum(min_price) \o <<"_">> \o StrNum(max_price)

\* f'property_{property_id}'
EntityKey(property_id) == PROPERTY_PREFIX \o StrInt(property_id)

\* Timeouts, in seconds.
TTL_ALL == 3600
TTL_LOCATION == 1800
TTL_PRICE == 900
TTL_DETAIL == 900
TTL_LIST == 300
TTL_LAST_INVALIDATION == 3600
\* timeout=None: the entry never expires (the store reports a TTL of -1).
PERSISTENT == -1

\* -------------------------------------------------------------- the inputs
\* Field values a Property is created or updated with.
PropertyValues ==
  { [location |-> <<"N", " ", "Y">>, price |-> 3, status |-> "available"],
    [location |-> <<"L", "A">>, price |-> 7, status |-> "sold"] }

\* Arguments of get_properties_by_location.
QueryLocations == { <<"n", " ", "y">>, <<"L", "A">> }

\* Arguments of get_properties_by_price_range.
QueryRanges == { <<IntArg(0), IntArg(5)>>, <<IntArg(0), FloatArg(5)>> }

Ids == 1..MaxId

\* ------------------------------------------------------------------ state
VARIABLES
  store,          \* the cache store: key -> [value, timeout], present keys only
  keysSupported,  \* whether the cache backend has keys(pattern)
  db,             \* the committed Property table: id -> field values
  nextId,         \* the next primary key the database assigns
  dbVersion,      \* ghost: number of commits so far
  th,             \* per request thread: position, locals and ghosts
  ops,            \* number of requests started
  limit,          \* number of requests a behaviour may start
  clean,          \* ghost: an invalidation completed and nothing was cached since
  completed,      \* ghost: number of invalidations that ran to their end
  redis_client,   \* whether _get_redis_client() finds a client
  redis_info,     \* the server's statistics, as INFO reports them
  now,            \* the clock datetime.now() reads
  fresh           \* ghost: the statistics were reset and nothing moved since

\* The statistics side of the store.
redis == <<redis_client, redis_info, now, fresh>>

vars == <<store, keysSupported, limit, db, nextId, dbVersion, th, ops, clean, completed, redis>>

NoArg == [location |-> <<>>, min_price |-> IntArg(0), max_price |-> IntArg(0), pk |-> 0]
NoPayload == [rows |-> <<>>, ver |-> 0 - 1]
NoWrite == [kind |-> "none", id |-> 0, values |-> [location |-> <<>>, price |-> 0, status |-> "none"]]
NoCallback == [instance |-> 0, created |-> FALSE, is_delete |-> FALSE, is_m2m_change |-> FALSE]

\* The metrics dict get_redis_cache_metrics starts from.  Ratios are fixed-point
\* numbers (see RATIO_UNIT, PERCENT_UNIT); performance is <<>> while the key
\* is not set.
NoMetrics ==
  [ status |-> "error", hits |-> 0, misses |-> 0, total_operations |-> 0,
    hit_ratio |-> 0, hit_percentage |-> 0, memory_usage |-> [value |-> 0, unit |-> "N/A"],
    timestamp |-> 0, performance |-> <<>> ]

\* What a metrics function hands back: kind is "None", "int" or "dict";
\* the other fields are the keys of a returned dict (or the int's value).
NoReturn ==
  [ kind |-> "unset", value |-> 0, status |-> "none", trend |-> "none", trend_value |-> 0,
    current_hit_rate |-> 0, average_hit_rate |-> [sum |-> 0, n |-> 1], data_points |-> 0,
    hits |-> 0, misses |-> 0, hit_ratio |-> 0, hit_percentage |-> 0,
    grade |-> "none", recommendations |-> <<>> ]

\* cache.get('last_cache_invalidation') when the key is absent: None.
NoEvent == [property_id |-> 0, action |-> "None", cache_keys_deleted |-> <<>>]

\* The dict get_cache_invalidation_stats builds; all_properties_ttl is
\* PERSISTENT - 1 for None.
NoStats ==
  [ total_invalidations |-> 0, last_invalidation |-> NoEvent,
    all_properties_cached |-> FALSE, all_properties_ttl |-> PERSISTENT - 1 ]

\* A thread between requests.
Idle ==
  [ pc |-> "idle", op |-> "none", fallback |-> FALSE, arg |-> NoArg,
    queryset |-> NoPayload, result |-> NoPayload, outcome |-> "none",
    txn |-> "none", write |-> NoWrite, on_commit |-> <<>>,
    cb |-> NoCallback, i |-> 0, deleted_keys |-> <<>>, keys |-> <<>>,
    invalidation_count |-> 0, passed |-> "none",
    pattern |-> <<>>, invalidated_count |-> 0, deleted_count |-> 0,
    metrics |-> NoMetrics, history |-> <<>>, ret |-> NoReturn, stats |-> NoStats,
    \* ghosts
    rank |-> 0, startCompleted |-> 0,
    startFresh |-> FALSE, startHistory |-> <<>>,
    hit |-> FALSE, fetches |-> 0, sets |-> 0,
    getErr |-> FALSE, repoErr |-> FALSE, storeErr |-> FALSE,
    startClean |-> FALSE, startCount |-> 0, before |-> {}, commitVer |-> 0 ]

\* ------------------------------------------------------------ cache store
\* cache.set(key, value, timeout)
Put(st, key, value, timeout) ==
  [k \in DOMAIN st \cup {key} |->
     IF k = key THEN [value |-> value, timeout |-> timeout] ELSE st[k]]

\* cache.delete(key) / cache.delete_many(keys): the store without those keys
Remove(st, ks) == [k \in DOMAIN st \ ks |-> st[k]]

\* cache.keys(pattern): the present keys the pattern matches
Keys(st, pattern) == {k \in DOMAIN st : GlobMatch(pattern, k)}

\* cache.get('cache_invalidation_count', 0)
InvalidationCount(st) ==
  IF CACHE_INVALIDATION_COUNT \in DOMAIN st THEN st[CACHE_INVALIDATION_COUNT].value ELSE 0

\* --------------------------------------------------------------- database
Row(d, id) ==
  [id |-> id, location |-> d[id].location, price |-> d[id].price, status |-> d[id].status]

\* order_by('-created_at'): ids are handed out in creation order
RECURSIVE NewestFirst(_, _)
NewestFirst(d, S) ==
  IF S = {} THEN <<>>
  ELSE LET m == CHOOSE x \in S : \A y \in S : y <= x
       IN <<Row(d, m)>> \o NewestFirst(d, S \ {m})

\* order_by('price'): rows of equal price come in an order the database picks
ByPrice(d, S) ==
  {[i \in 1..Cardinality(S) |-> Row(d, f[i])] : f \in
     {g \in Orderings(S) : \A i, j \in 1..Cardinality(S) : i < j => d[g[i]].price <= d[g[j]].price}}

\* Property.objects.all().select_related().order_by('-created_at')
FetchAll(d) == {NewestFirst(d, DOMAIN d)}

\* Property.objects.filter(location__icontains=location).order_by('-created_at')
FetchByLocation(d, location) ==
  {NewestFirst(d, {id \in DOMAIN d : IContains(d[id].location, location)})}

\* Property.objects.filter(price__gte=min_price, price__lte=max_price).order_by('price')
FetchByPriceRange(d, min_price, max_price) ==
  ByPrice(d, {id \in DOMAIN d : d[id].price >= min_price.val /\ d[id].price <= max_price.val})

\* Property.objects.filter(status='available').order_by('-created_at')
FetchAvailable(d) == {NewestFirst(d, {id \in DOMAIN d : d[id].status = "available"})}

\* DetailView.get_object: the row with that pk; no result when there is none
FetchById(d, pk) == IF pk \in DOMAIN d THEN {<<Row(d, pk)>>} ELSE {}

\* ------------------------------------------------------------------- Init
\* The table holds the rows a seeding run created.
SeedTables == { <<[location |-> <<"N", " ", "Y">>, price |-> 3, status |-> "available"]>> }

Start ==
  /\ store = <<>>
  /\ keysSupported \in BOOLEAN
  /\ db \in SeedTables
  /\ nextId = Len(db) + 1
  /\ dbVersion = 0
  /\ th = [t \in Threads |-> Idle]
  /\ ops = 0
  /\ clean = FALSE
  /\ completed = 0

\* The statistics as a freshly started server reports them.
NoStatistics ==
  /\ redis_client = TRUE
  /\ redis_info = [keyspace_hits |-> 0, keyspace_misses |-> 0, used_memory |-> 0]
  /\ now = 0
  /\ fresh = FALSE

Init == Start /\ NoStatistics /\ limit = MaxOps

InitSeq == Start /\ NoStatistics /\ limit = MaxSeqOps

\* ----------------------------------------------------- read-through steps
\* A request thread picks up a request.
Call(t, op, arg, fallback) ==
  /\ th[t].pc = "idle"
  /\ ops < limit
  /\ ops' = ops + 1
  /\ th' = [th EXCEPT ![t] = [Idle EXCEPT !.pc = "get", !.op = op, !.arg = arg, !.fallback = fallback,
                                         !.before = DOMAIN store]]
  /\ UNCHANGED <<store, keysSupported, limit, redis, db, nextId, dbVersion, clean, completed>>

\* An exception leaves the function: caught by get_all_with_fallback when
\* it is the caller, otherwise it reaches the request's caller.
Raised(rec) ==
  IF rec.fallback THEN [rec EXCEPT !.pc = "fallback"]
  ELSE [rec EXCEPT !.pc = "done", !.outcome = "raised"]

Returned(rec, payload) ==
  [rec EXCEPT !.pc = "done", !.outcome = "returned", !.result = payload]

\* The cache key of a read-through request.
cache_key(rec) ==
  IF rec.op = "get_all_properties" THEN ALL_PROPERTIES
  ELSE IF rec.op = "get_properties_by_location" THEN LocationKey(rec.arg.location)
  ELSE IF rec.op = "get_properties_by_price_range" THEN PriceRangeKey(rec.arg.min_price, rec.arg.max_price)
  ELSE IF rec.op = "get_object" THEN EntityKey(rec.arg.pk)
  ELSE PROPERTIES_LIST

\* CacheGet with the truth test 'if cached_data:' in place of 'is not None':
\* a stored empty result counts as a miss.
CacheGet_truthy(t, op) ==
  /\ th[t].pc = "get" /\ th[t].op = op
  /\ LET present == cache_key(th[t]) \in DOMAIN store
         truthy == present /\ store[cache_key(th[t])].value.rows # <<>>
     IN \/ /\ truthy
           /\ th' = [th EXCEPT ![t] = Returned([th[t] EXCEPT !.hit = TRUE], store[cache_key(th[t])].value)]
        \/ /\ ~truthy
           /\ th' = [th EXCEPT ![t].pc = "fetch"]
        \/ th' = [th EXCEPT ![t] = Raised([th[t] EXCEPT !.getErr = TRUE])]
  /\ UNCHANGED <<store, keysSupported, limit, redis, db, nextId, dbVersion, ops, clean, completed>>

\* cached_data = cache.get(cache_key); if cached_data is not None: return it
CacheGet(t, op) ==
  /\ th[t].pc = "get" /\ th[t].op = op
  /\ \/ /\ cache_key(th[t]) \in DOMAIN store
        /\ th' = [th EXCEPT ![t] = Returned([th[t] EXCEPT !.hit = TRUE], store[cache_key(th[t])].value)]
     \/ /\ cache_key(th[t]) \notin DOMAIN store
        /\ th' = [th EXCEPT ![t].pc = "fetch"]
     \/ \* the store is unreachable: cache.get raises
        th' = [th EXCEPT ![t] = Raised([th[t] EXCEPT !.getErr = TRUE])]
  /\ UNCHANGED <<store, keysSupported, limit, redis, db, nextId, dbVersion, ops, clean, completed>>

\* Whether the function evaluates its query itself before it calls
\* cache.set: get_all_properties does (list(queryset)), and get_object has
\* the instance in hand; the others pass the query as they built it, and it
\* is evaluated when cache.set serializes it.
EvaluatedBeforeSet(op) == op \in {"get_all_properties", "get_object"}

\* What cache.set is handed: the evaluated rows or the unevaluated query.
Passed(op) == IF EvaluatedBeforeSet(op) THEN "rows" ELSE "query"

\* Fetch with the database's error swallowed: the request goes on to cache
\* an empty result.
Fetch_swallows_error(t, op, results) ==
  /\ th[t].pc = "fetch" /\ th[t].op = op
  /\ \/ \E rows \in results :
          th' = [th EXCEPT ![t].pc = "set", ![t].fetches = @ + 1, ![t].passed = Passed(op),
                           ![t].queryset = [rows |-> rows, ver |-> dbVersion]]
     \/ th' = [th EXCEPT ![t].pc = "set", ![t].fetches = @ + 1, ![t].repoErr = TRUE,
                         ![t].passed = Passed(op),
                         ![t].queryset = [rows |-> <<>>, ver |-> dbVersion]]
  /\ UNCHANGED <<store, keysSupported, limit, redis, db, nextId, dbVersion, ops, clean, completed>>

\* The query is evaluated against the committed table, by the function
\* itself or by cache.set serializing the query it was handed.
Fetch(t, op, results) ==
  /\ th[t].pc = "fetch" /\ th[t].op = op
  /\ \/ \E rows \in results :
          th' = [th EXCEPT ![t].pc = "set", ![t].fetches = @ + 1, ![t].passed = Passed(op),
                           ![t].queryset = [rows |-> rows, ver |-> dbVersion]]
     \/ \* the database raises
        th' = [th EXCEPT ![t] = Raised([th[t] EXCEPT !.repoErr = TRUE, !.fetches = @ + 1])]
  /\ UNCHANGED <<store, keysSupported, limit, redis, db, nextId, dbVersion, ops, clean, completed>>

\* CacheSet with the payload written under the metadata key.
CacheSet_wrong_key(t, op, timeout, hasMeta) ==
  /\ th[t].pc = "set" /\ th[t].op = op
  /\ \/ /\ store' = Put(store, MetaKey(cache_key(th[t])), th[t].queryset, timeout)
        /\ clean' = FALSE
        /\ th' = [th EXCEPT ![t] =
                    IF hasMeta THEN [th[t] EXCEPT !.pc = "setmeta", !.sets = @ + 1]
                    ELSE Returned([th[t] EXCEPT !.sets = @ + 1], th[t].queryset)]
     \/ /\ th' = [th EXCEPT ![t] = Raised([th[t] EXCEPT !.storeErr = TRUE])]
        /\ UNCHANGED <<store, clean>>
  /\ UNCHANGED <<keysSupported, limit, redis, db, nextId, dbVersion, ops, completed>>

\* cache.set(cache_key, queryset, timeout); return queryset (or go on to the metadata)
CacheSet(t, op, timeout, hasMeta) ==
  /\ th[t].pc = "set" /\ th[t].op = op
  /\ \/ /\ store' = Put(store, cache_key(th[t]), th[t].queryset, timeout)
        /\ clean' = FALSE
        /\ th' = [th EXCEPT ![t] =
                    IF hasMeta THEN [th[t] EXCEPT !.pc = "setmeta", !.sets = @ + 1]
                    ELSE Returned([th[t] EXCEPT !.sets = @ + 1], th[t].queryset)]
     \/ \* the store is unreachable: cache.set raises
        /\ th' = [th EXCEPT ![t] = Raised([th[t] EXCEPT !.storeErr = TRUE])]
        /\ UNCHANGED <<store, clean>>
  /\ UNCHANGED <<keysSupported, limit, redis, db, nextId, dbVersion, ops, completed>>

\* ------------------------------------------------------ get_all_properties
\* metadata = {'cached_at', 'count', 'fetch_time', 'source'}; the two
\* timings are wall-clock readings and carry no state of the program.
Metadata(payload) == [count |-> Len(payload.rows), source |-> "database"]

get_all_properties(t) ==
  \/ Call(t, "get_all_properties", NoArg, FALSE)
  \/ CacheGet(t, "get_all_properties")
  \/ Fetch(t, "get_all_properties", FetchAll(db))
  \/ CacheSet(t, "get_all_properties", TTL_ALL, TRUE)
  \/ \* cache.set(cache_meta_key, metadata, timeout=3600); return queryset
     /\ th[t].pc = "setmeta" /\ th[t].op = "get_all_properties"
     /\ \/ /\ store' = Put(store, MetaKey(cache_key(th[t])), Metadata(th[t].queryset), TTL_ALL)
           /\ th' = [th EXCEPT ![t] = Returned(th[t], th[t].queryset)]
        \/ /\ th' = [th EXCEPT ![t] = Raised([th[t] EXCEPT !.storeErr = TRUE])]
           /\ UNCHANGED store
     /\ UNCHANGED <<keysSupported, limit, redis, db, nextId, dbVersion, ops, clean, completed>>

\* PropertyCacheManager.get_all_with_fallback
get_all_with_fallback(t) ==
  \/ Call(t, "get_all_properties", NoArg, TRUE)
  \/ \* except Exception: return Property.objects.all()
     /\ th[t].pc = "fallback"
     /\ \E rows \in FetchAll(db) :
          th' = [th EXCEPT ![t] = Returned(th[t], [rows |-> rows, ver |-> dbVersion])]
     /\ UNCHANGED <<store, keysSupported, limit, redis, db, nextId, dbVersion, ops, clean, completed>>

\* get_properties_by_location(location), for the locations its callers pass
get_properties_by_location_of(t, locations) ==
  \/ \E location \in locations :
       Call(t, "get_properties_by_location", [NoArg EXCEPT !.location = location], FALSE)
  \/ CacheGet(t, "get_properties_by_location")
  \/ Fetch(t, "get_properties_by_location", FetchByLocation(db, th[t].arg.location))
  \/ CacheSet(t, "get_properties_by_location", TTL_LOCATION, FALSE)

get_properties_by_location(t) == get_properties_by_location_of(t, QueryLocations)

\* get_properties_by_price_range with the timeout of the by-location entries.
get_properties_by_price_range_ttl_1800(t) ==
  \/ \E r \in QueryRanges :
       Call(t, "get_properties_by_price_range",
            [NoArg EXCEPT !.min_price = r[1], !.max_price = r[2]], FALSE)
  \/ CacheGet(t, "get_properties_by_price_range")
  \/ Fetch(t, "get_properties_by_price_range",
           FetchByPriceRange(db, th[t].arg.min_price, th[t].arg.max_price))
  \/ CacheSet(t, "get_properties_by_price_range", TTL_LOCATION, FALSE)

get_properties_by_price_range(t) ==
  \/ \E r \in QueryRanges :
       Call(t, "get_properties_by_price_range",
            [NoArg EXCEPT !.min_price = r[1], !.max_price = r[2]], FALSE)
  \/ CacheGet(t, "get_properties_by_price_range")
  \/ Fetch(t, "get_properties_by_price_range",
           FetchByPriceRange(db, th[t].arg.min_price, th[t].arg.max_price))
  \/ CacheSet(t, "get_properties_by_price_range", TTL_PRICE, FALSE)

\* PropertyListView.get_queryset of the class defined at views.py line 24,
\* the one that caches; the module defines the class a second time further
\* down, without the cache.
get_queryset(t) ==
  \/ Call(t, "get_queryset", NoArg, FALSE)
  \/ CacheGet(t, "get_queryset")
  \/ Fetch(t, "get_queryset", FetchAvailable(db))
  \/ CacheSet(t, "get_queryset", TTL_LIST, FALSE)

\* PropertyDetailView.get_object
get_object(t) ==
  \/ \E pk \in Ids : Call(t, "get_object", [NoArg EXCEPT !.pk = pk], FALSE)
  \/ CacheGet(t, "get_object")
  \/ Fetch(t, "get_object", FetchById(db, th[t].arg.pk))
  \/ \* super().get_object raises Http404 when no row has that pk
     /\ th[t].pc = "fetch" /\ th[t].op = "get_object"
     /\ FetchById(db, th[t].arg.pk) = {}
     /\ th' = [th EXCEPT ![t] = [th[t] EXCEPT !.pc = "done", !.outcome = "not_found", !.fetches = @ + 1]]
     /\ UNCHANGED <<store, keysSupported, limit, redis, db, nextId, dbVersion, ops, clean, completed>>
  \/ CacheSet(t, "get_object", TTL_DETAIL, FALSE)

\* The caller takes the outcome; the thread is free for the next request.
Return(t) ==
  /\ th[t].pc = "done"
  /\ th' = [th EXCEPT ![t] = Idle]
  /\ UNCHANGED <<store, keysSupported, limit, redis, db, nextId, dbVersion, ops, clean, completed>>

\* An entry's time to live runs out.
Expire(k) ==
  /\ k \in DOMAIN store
  /\ store[k].timeout # PERSISTENT
  /\ store' = Remove(store, {k})
  /\ UNCHANGED <<keysSupported, limit, redis, db, nextId, dbVersion, th, ops, clean, completed>>

\* ------------------------------------------------------- signal receivers
\* Each receiver hands transaction.on_commit the callback it returns here.
Callback(instance, created, is_delete, is_m2m_change) ==
  [instance |-> instance, created |-> created, is_delete |-> is_delete,
   is_m2m_change |-> is_m2m_change]

\* post_save receiver
invalidate_cache_on_save(instance, created) ==
  <<Callback(instance, created, FALSE, FALSE)>>

\* post_delete receiver
invalidate_cache_on_delete(instance) ==
  <<Callback(instance, FALSE, TRUE, FALSE)>>

\* The m2m_changed receiver without its test of the action: every
\* notification, the pre_ ones included, schedules an invalidation.
invalidate_cache_on_m2m_change_any_action(instance, action) ==
  <<Callback(instance, FALSE, FALSE, TRUE)>>

\* m2m_changed receiver
invalidate_cache_on_m2m_change(instance, action) ==
  IF action \in {"post_add", "post_remove", "post_clear"}
  THEN <<Callback(instance, FALSE, FALSE, TRUE)>>
  ELSE <<>>

\* ------------------------------------------------------------ transactions
\* Rows another open transaction has written and still holds locked.
Locked(t) == {th[u].write.id : u \in {x \in Threads \ {t} : th[x].txn = "pending"}}

\* The write runs inside a transaction and the receivers register their
\* callbacks; nothing is visible to other requests until the commit.
Begin(t, op, write, callbacks) ==
  /\ th[t].pc = "idle"
  /\ ops < limit
  /\ ops' = ops + 1
  /\ th' = [th EXCEPT ![t] = [Idle EXCEPT !.pc = "pending", !.op = op, !.txn = "pending",
                                         !.write = write, !.on_commit = callbacks,
                                         !.before = DOMAIN store]]
  /\ UNCHANGED <<store, keysSupported, limit, redis, db, dbVersion, clean, completed>>

\* Property.save() of a new instance (Property.objects.create)
save_created(t) ==
  /\ nextId <= MaxId
  /\ \E values \in PropertyValues :
       Begin(t, "save", [kind |-> "create", id |-> nextId, values |-> values],
             invalidate_cache_on_save(nextId, TRUE))
  /\ nextId' = nextId + 1

\* Property.save() of an existing instance
save_updated(t) ==
  /\ \E id \in DOMAIN db \ Locked(t) : \E values \in PropertyValues \ {db[id]} :
       Begin(t, "save", [kind |-> "update", id |-> id, values |-> values],
             invalidate_cache_on_save(id, FALSE))
  /\ UNCHANGED nextId

\* Property.delete()
delete(t) ==
  /\ \E id \in DOMAIN db \ Locked(t) :
       Begin(t, "delete", [NoWrite EXCEPT !.kind = "delete", !.id = id],
             invalidate_cache_on_delete(id))
  /\ UNCHANGED nextId

\* instance.amenities.add / remove / clear: the relation sends m2m_changed
\* twice, with pre_<verb> before the write and post_<verb> after it.
amenities_changed(t) ==
  /\ \E id \in DOMAIN db \ Locked(t) : \E verb \in {"add", "remove", "clear"} :
       LET pre == IF verb = "add" THEN "pre_add" ELSE IF verb = "remove" THEN "pre_remove" ELSE "pre_clear"
           post == IF verb = "add" THEN "post_add" ELSE IF verb = "remove" THEN "post_remove" ELSE "post_clear"
       IN Begin(t, "m2m", [NoWrite EXCEPT !.kind = "m2m", !.id = id],
                invalidate_cache_on_m2m_change(id, pre) \o invalidate_cache_on_m2m_change(id, post))
  /\ UNCHANGED nextId

\* The table after a committed write.
Apply(d, write) ==
  IF write.kind = "create"
  THEN [id \in DOMAIN d \cup {write.id} |-> IF id = write.id THEN write.values ELSE d[id]]
  ELSE IF write.kind = "update" /\ write.id \in DOMAIN d
  THEN [d EXCEPT ![write.id] = write.values]
  ELSE IF write.kind = "delete"
  THEN [id \in DOMAIN d \ {write.id} |-> d[id]]
  ELSE d

\* The thread enters _clear_property_cache for its next on_commit callback,
\* or is finished when none is left.
RunCallbacks(rec) ==
  IF rec.on_commit = <<>>
  THEN [rec EXCEPT !.pc = "done", !.outcome = "returned"]
  ELSE [rec EXCEPT !.pc = "delete", !.cb = Head(rec.on_commit), !.on_commit = Tail(rec.on_commit),
                   !.i = 1, !.deleted_keys = <<>>, !.keys = <<>>, !.invalidation_count = 0,
                   !.storeErr = FALSE,
                   !.startClean = clean, !.startCount = InvalidationCount(store)]

\* The transaction commits: the write becomes visible and the on_commit
\* callbacks start to run.
Commit(t) ==
  /\ th[t].pc = "pending" /\ th[t].op \in {"save", "delete", "m2m"}
  /\ db' = Apply(db, th[t].write)
  /\ dbVersion' = dbVersion + 1
  /\ th' = [th EXCEPT ![t] = RunCallbacks([th[t] EXCEPT !.txn = "committed", !.commitVer = dbVersion + 1])]
  /\ UNCHANGED <<store, keysSupported, limit, redis, nextId, ops, clean, completed>>

\* Rollback with the callbacks run at once instead of being discarded (the
\* receivers calling _clear_property_cache without transaction.on_commit).
Rollback_runs_callbacks(t) ==
  /\ th[t].pc = "pending" /\ th[t].op \in {"save", "delete", "m2m"}
  /\ th' = [th EXCEPT ![t] = RunCallbacks([th[t] EXCEPT !.txn = "rolledback"])]
  /\ UNCHANGED <<store, keysSupported, limit, redis, db, nextId, dbVersion, ops, clean, completed>>

\* The transaction rolls back: the write and the callbacks are discarded.
Rollback(t) ==
  /\ th[t].pc = "pending" /\ th[t].op \in {"save", "delete", "m2m"}
  /\ th' = [th EXCEPT ![t] = [th[t] EXCEPT !.pc = "done", !.txn = "rolledback",
                                          !.on_commit = <<>>, !.outcome = "rolled_back"]]
  /\ UNCHANGED <<store, keysSupported, limit, redis, db, nextId, dbVersion, ops, clean, completed>>

\* --------------------------------------------------- _clear_property_cache
cache_keys_to_delete == <<ALL_PROPERTIES, MetaKey(ALL_PROPERTIES)>>

\* cache_patterns without the single-property pattern.
cache_patterns_without_detail == << <<"p", "r", "o", "p", "e", "r", "t", "i", "e", "s", "_", "l", "o", "c", "a", "t", "i", "o", "n", "_", "*">>, <<"p", "r", "o", "p", "e", "r", "t", "i", "e", "s", "_", "p", "r", "i", "c", "e", "_", "*">> >>

cache_patterns == << <<"p", "r", "o", "p", "e", "r", "t", "i", "e", "s", "_", "l", "o", "c", "a", "t", "i", "o", "n", "_", "*">>, <<"p", "r", "o", "p", "e", "r", "t", "i", "e", "s", "_", "p", "r", "i", "c", "e", "_", "*">>, <<"p", "r", "o", "p", "e", "r", "t", "y", "_", "*">> >>

\* action_type without the test of is_delete: a deletion is labelled as an
\* update.
action_type_without_deleted(cb) ==
  IF cb.is_m2m_change THEN "M2M relationship changed"
  ELSE IF cb.created THEN "created"
  ELSE "updated"

action_type(cb) ==
  IF cb.is_m2m_change THEN "M2M relationship changed"
  ELSE IF cb.created THEN "created"
  ELSE IF cb.is_delete THEN "deleted"
  ELSE "updated"

\* The invalidation event; property_title and timestamp repeat fields of
\* the instance and are left out.
invalidation_event(rec) ==
  [property_id |-> rec.cb.instance, action |-> action_type(rec.cb),
   cache_keys_deleted |-> rec.deleted_keys]

\* _clear_property_cache without its outer try: the error of a store
\* operation leaves the function and reaches the code that committed.
Failed_raises(rec) ==
  [rec EXCEPT !.pc = "done", !.outcome = "raised", !.storeErr = TRUE]

\* except Exception: the error is logged and the function returns.
Failed(rec) == RunCallbacks([rec EXCEPT !.storeErr = TRUE])

\* DeleteExact with every key recorded, whatever cache.delete returned.
DeleteExact_records_all(t) ==
  /\ th[t].pc = "delete"
  /\ LET key == cache_keys_to_delete[th[t].i]
         last == th[t].i = Len(cache_keys_to_delete)
     IN \/ /\ store' = Remove(store, {key})
           /\ th' = [th EXCEPT ![t].deleted_keys = Append(@, key),
                               ![t].i = IF last THEN 1 ELSE @ + 1,
                               ![t].pc = IF last THEN "keys" ELSE "delete"]
        \/ /\ th' = [th EXCEPT ![t] = Failed(th[t])]
           /\ UNCHANGED store
  /\ UNCHANGED <<keysSupported, limit, redis, db, nextId, dbVersion, ops, clean, completed>>

\* for key in cache_keys_to_delete: if cache.delete(key): deleted_keys.append(key)
DeleteExact(t) ==
  /\ th[t].pc = "delete"
  /\ LET key == cache_keys_to_delete[th[t].i]
         last == th[t].i = Len(cache_keys_to_delete)
     IN \/ /\ store' = Remove(store, {key})
           /\ th' = [th EXCEPT ![t].deleted_keys = IF key \in DOMAIN store THEN Append(@, key) ELSE @,
                               ![t].i = IF last THEN 1 ELSE @ + 1,
                               ![t].pc = IF last THEN "keys" ELSE "delete"]
        \/ /\ th' = [th EXCEPT ![t] = Failed(th[t])]
           /\ UNCHANGED store
  /\ UNCHANGED <<keysSupported, limit, redis, db, nextId, dbVersion, ops, clean, completed>>

\* Where the loop over cache_patterns goes after pattern i.
NextPattern(rec) ==
  IF rec.i = Len(cache_patterns)
  THEN [rec EXCEPT !.pc = "set_last", !.keys = <<>>]
  ELSE [rec EXCEPT !.pc = "keys", !.i = @ + 1, !.keys = <<>>]

\* PatternKeys without the inner try: the AttributeError of a backend that
\* has no keys() ends the function in its outer handler.
PatternKeys_without_inner_try(t) ==
  /\ th[t].pc = "keys"
  /\ \/ /\ keysSupported
        /\ \E keys \in Orderings(Keys(store, cache_patterns[th[t].i])) :
             th' = [th EXCEPT ![t] = IF keys = <<>> THEN NextPattern(th[t])
                                     ELSE [th[t] EXCEPT !.pc = "delete_many", !.keys = keys]]
     \/ /\ ~keysSupported
        /\ th' = [th EXCEPT ![t] = RunCallbacks(th[t])]
     \/ /\ keysSupported
        /\ th' = [th EXCEPT ![t] = Failed(th[t])]
  /\ UNCHANGED <<store, keysSupported, limit, redis, db, nextId, dbVersion, ops, clean, completed>>

\* keys = cache.keys(pattern)
PatternKeys(t) ==
  /\ th[t].pc = "keys"
  /\ \/ /\ keysSupported
        /\ \E keys \in Orderings(Keys(store, cache_patterns[th[t].i])) :
             th' = [th EXCEPT ![t] = IF keys = <<>> THEN NextPattern(th[t])
                                     ELSE [th[t] EXCEPT !.pc = "delete_many", !.keys = keys]]
     \/ \* except AttributeError: the backend has no keys()
        /\ ~keysSupported
        /\ th' = [th EXCEPT ![t].pc = "set_last"]
     \/ /\ keysSupported
        /\ th' = [th EXCEPT ![t] = Failed(th[t])]
  /\ UNCHANGED <<store, keysSupported, limit, redis, db, nextId, dbVersion, ops, clean, completed>>

\* cache.delete_many(keys); deleted_keys.extend(keys)
DeleteMany(t) ==
  /\ th[t].pc = "delete_many"
  /\ \/ /\ store' = Remove(store, Range(th[t].keys))
        /\ th' = [th EXCEPT ![t] = NextPattern([th[t] EXCEPT !.deleted_keys = @ \o th[t].keys])]
     \/ /\ th' = [th EXCEPT ![t] = Failed(th[t])]
        /\ UNCHANGED store
  /\ UNCHANGED <<keysSupported, limit, redis, db, nextId, dbVersion, ops, clean, completed>>

\* cache.set('last_cache_invalidation', invalidation_event, timeout=3600)
SetLastInvalidation(t) ==
  /\ th[t].pc = "set_last"
  /\ \/ /\ store' = Put(store, LAST_CACHE_INVALIDATION, invalidation_event(th[t]), TTL_LAST_INVALIDATION)
        /\ th' = [th EXCEPT ![t].pc = "get_count"]
     \/ /\ th' = [th EXCEPT ![t] = Failed(th[t])]
        /\ UNCHANGED store
  /\ UNCHANGED <<keysSupported, limit, redis, db, nextId, dbVersion, ops, clean, completed>>

\* invalidation_count = cache.get('cache_invalidation_count', 0)
GetInvalidationCount(t) ==
  /\ th[t].pc = "get_count"
  /\ \/ th' = [th EXCEPT ![t].pc = "set_count", ![t].invalidation_count = InvalidationCount(store)]
     \/ th' = [th EXCEPT ![t] = Failed(th[t])]
  /\ UNCHANGED <<store, keysSupported, limit, redis, db, nextId, dbVersion, ops, clean, completed>>

\* cache.set('cache_invalidation_count', invalidation_count + 1, timeout=None)
SetInvalidationCount(t) ==
  /\ th[t].pc = "set_count"
  /\ \/ /\ store' = Put(store, CACHE_INVALIDATION_COUNT, th[t].invalidation_count + 1, PERSISTENT)
        /\ th' = [th EXCEPT ![t] = RunCallbacks([th[t] EXCEPT !.rank = completed + 1])]
        /\ clean' = TRUE
        /\ completed' = completed + 1
     \/ /\ th' = [th EXCEPT ![t] = Failed(th[t])]
        /\ UNCHANGED <<store, clean, completed>>
  /\ UNCHANGED <<keysSupported, limit, redis, db, nextId, dbVersion, ops>>

_clear_property_cache(t) ==
  \/ DeleteExact(t)
  \/ PatternKeys(t)
  \/ DeleteMany(t)
  \/ SetLastInvalidation(t)
  \/ GetInvalidationCount(t)
  \/ SetInvalidationCount(t)

\* --------------------------------------------- get_cache_invalidation_stats
\* One read of the store by get_cache_invalidation_stats: the thread goes on
\* with the dict filled in, or the read raises and the error reaches the caller.
StatsRead(t, pc, next) ==
  /\ th[t].pc = pc
  /\ \/ th' = [th EXCEPT ![t] = next]
     \/ th' = [th EXCEPT ![t] = [th[t] EXCEPT !.pc = "done", !.outcome = "raised", !.getErr = TRUE]]
  /\ UNCHANGED <<store, keysSupported, limit, redis, db, nextId, dbVersion, ops, clean, completed>>

get_cache_invalidation_stats(t) ==
  \/ /\ th[t].pc = "idle"
     /\ ops < limit
     /\ ops' = ops + 1
     /\ th' = [th EXCEPT ![t] = [Idle EXCEPT !.pc = "stats_count", !.op = "get_cache_invalidation_stats",
                                            !.before = DOMAIN store, !.startCompleted = completed]]
     /\ UNCHANGED <<store, keysSupported, limit, redis, db, nextId, dbVersion, clean, completed>>
  \/ \* 'total_invalidations': cache.get('cache_invalidation_count', 0)
     StatsRead(t, "stats_count",
               [th[t] EXCEPT !.pc = "stats_last",
                             !.stats.total_invalidations = InvalidationCount(store)])
  \/ \* 'last_invalidation': cache.get('last_cache_invalidation')
     StatsRead(t, "stats_last",
               [th[t] EXCEPT !.pc = "stats_cached",
                             !.stats.last_invalidation =
                                IF LAST_CACHE_INVALIDATION \in DOMAIN store
                                THEN store[LAST_CACHE_INVALIDATION].value ELSE NoEvent])
  \/ \* 'all_properties_cached': cache.get('all_properties') is not None
     StatsRead(t, "stats_cached",
               [th[t] EXCEPT !.pc = "stats_if",
                             !.stats.all_properties_cached = (ALL_PROPERTIES \in DOMAIN store)])
  \/ \* ... if cache.get('all_properties') else None: an absent entry and an
     \* entry without rows are both false
     StatsRead(t, "stats_if",
               IF ALL_PROPERTIES \in DOMAIN store /\ store[ALL_PROPERTIES].value.rows # <<>>
               THEN [th[t] EXCEPT !.pc = "stats_ttl"]
               ELSE [th[t] EXCEPT !.pc = "done", !.outcome = "returned"])
  \/ \* 'all_properties_ttl': cache.ttl('all_properties'), 0 for a key that is gone
     StatsRead(t, "stats_ttl",
               [th[t] EXCEPT !.pc = "done", !.outcome = "returned",
                             !.stats.all_properties_ttl =
                                IF ALL_PROPERTIES \in DOMAIN store
                                THEN store[ALL_PROPERTIES].timeout ELSE 0])

\* ------------------------------ Property.bulk_create_with_cache_invalidation
bulk_create_with_cache_invalidation(t) ==
  \/ \* called with one new Property
     /\ th[t].pc = "idle"
     /\ ops < limit
     /\ nextId <= MaxId
     /\ ops' = ops + 1
     /\ \E values \in PropertyValues :
          th' = [th EXCEPT ![t] = [Idle EXCEPT !.pc = "bulk_delete", !.op = "bulk_create", !.txn = "pending",
                                               !.write = [kind |-> "create", id |-> 0, values |-> values]]]
     /\ UNCHANGED <<store, keysSupported, limit, redis, db, nextId, dbVersion, clean, completed>>
  \/ \* cache.delete('all_properties')
     /\ th[t].pc = "bulk_delete"
     /\ \/ /\ store' = Remove(store, {ALL_PROPERTIES})
           /\ th' = [th EXCEPT ![t].pc = "bulk_create"]
        \/ /\ th' = [th EXCEPT ![t] = [th[t] EXCEPT !.pc = "done", !.outcome = "raised",
                                                !.txn = "aborted", !.storeErr = TRUE]]
           /\ UNCHANGED store
     /\ UNCHANGED <<keysSupported, limit, redis, db, nextId, dbVersion, ops, clean, completed>>
  \/ \* created = super().bulk_create(objects, batch_size=batch_size); no
     \* post_save is sent for rows created in bulk
     /\ th[t].pc = "bulk_create"
     /\ \/ /\ nextId <= MaxId
           /\ db' = Apply(db, [th[t].write EXCEPT !.id = nextId])
           /\ nextId' = nextId + 1
           /\ dbVersion' = dbVersion + 1
           /\ th' = [th EXCEPT ![t] = [th[t] EXCEPT !.pc = "done", !.outcome = "returned",
                                                   !.txn = "committed", !.write.id = nextId]]
        \/ \* the insert raises
           /\ th' = [th EXCEPT ![t] = [th[t] EXCEPT !.pc = "done", !.outcome = "raised",
                                                   !.txn = "aborted", !.repoErr = TRUE]]
           /\ UNCHANGED <<db, nextId, dbVersion>>
     /\ UNCHANGED <<store, keysSupported, limit, redis, ops, clean, completed>>

\* ------------------------------------------------- cache metrics: the sums
HISTORY_KEY == <<"c", "a", "c", "h", "e", "_", "m", "e", "t", "r", "i", "c", "s", "_", "h", "i", "s", "t", "o", "r", "y">>

\* max_history = 1440
max_history == 1440

\* history[-10:]
trend_window == 10

\* round(hit_ratio, 4): hit_ratio is kept as a whole number of 1/10000.
RATIO_UNIT == 10000
\* round(hit_ratio * 100, 2): hit_percentage is kept as a whole number of
\* hundredths of a percent.
PERCENT_UNIT == 100

\* round() of the quotient num / den to a whole number of units, a tie going
\* to the even neighbour.
Round(num, den) ==
  LET q == num \div den
      r == num % den
  IN IF 2 * r < den THEN q
     ELSE IF 2 * r > den THEN q + 1
     ELSE IF q % 2 = 0 THEN q ELSE q + 1

\* hit_ratio computed from the misses instead of the hits.
hit_ratio_of_misses(hits, total_ops) ==
  IF total_ops > 0 THEN Round((total_ops - hits) * RATIO_UNIT, total_ops) ELSE 0

\* round(hits / total_ops if total_ops > 0 else 0, 4)
hit_ratio(hits, total_ops) ==
  IF total_ops > 0 THEN Round(hits * RATIO_UNIT, total_ops) ELSE 0

\* round(hit_ratio * 100, 2)
hit_percentage(hits, total_ops) ==
  IF total_ops > 0 THEN Round(hits * 100 * PERCENT_UNIT, total_ops) ELSE 0

\* f"{bytes_size:.2f}" of bytes_size / scale, as a whole number of hundredths
\* (the whole part and the remainder are scaled apart to stay within the
\* integers of the checker).
Hundredths(bytes_size, scale) ==
  (bytes_size \div scale) * 100 + Round((bytes_size % scale) * 100, scale)

\* _format_bytes: the size scaled down by 1024 until it is below 1024, with
\* two decimals and the unit reached.
RECURSIVE FormatBytes(_, _, _)
FormatBytes(bytes_size, scale, units) ==
  IF units = <<>> THEN [value |-> Hundredths(bytes_size, scale), unit |-> "TB"]
  ELSE IF bytes_size < 1024 * scale
       THEN [value |-> Hundredths(bytes_size, scale), unit |-> Head(units)]
       ELSE FormatBytes(bytes_size, scale * 1024, Tail(units))

_format_bytes(bytes_size) == FormatBytes(bytes_size, 1, <<"B", "KB", "MB", "GB">>)

\* metrics.update({...}) of get_redis_cache_metrics
UpdatedMetrics(metrics, info) ==
  LET hits == info.keyspace_hits
      misses == info.keyspace_misses
      total_ops == hits + misses
  IN [metrics EXCEPT !.status = "success", !.hits = hits, !.misses = misses,
                     !.total_operations = total_ops,
                     !.hit_ratio = hit_ratio(hits, total_ops),
                     !.hit_percentage = hit_percentage(hits, total_ops),
                     !.memory_usage = _format_bytes(info.used_memory)]

\* history_entry of _store_metrics_history; keys_count and connected_clients
\* are copied from the server's report like hits and misses.
history_entry(metrics) ==
  [timestamp |-> metrics.timestamp, hit_percentage |-> metrics.hit_percentage,
   hits |-> metrics.hits, misses |-> metrics.misses]

\* history.append(entry), keeping the first max_history entries instead of
\* the last.
Appended_keeps_oldest(history, entry) ==
  LET h == Append(history, entry)
  IN IF Len(h) > max_history THEN SubSeq(h, 1, max_history) ELSE h

\* history.append(entry); if len(history) > max_history: history = history[-max_history:]
Appended(history, entry) ==
  LET h == Append(history, entry)
  IN IF Len(h) > max_history THEN SubSeq(h, Len(h) - max_history + 1, Len(h)) ELSE h

\* _evaluate_performance with the grade taken from strict comparisons.
_evaluate_performance_strict(metrics) ==
  LET hp == metrics.hit_percentage
      graded ==
        IF hp > 90 * PERCENT_UNIT THEN [grade |-> "Excellent", recommendations |-> <<>>]
        ELSE IF hp > 80 * PERCENT_UNIT THEN [grade |-> "Good", recommendations |-> <<>>]
        ELSE IF hp > 70 * PERCENT_UNIT THEN [grade |-> "Fair", recommendations |-> <<>>]
        ELSE [grade |-> "Poor", recommendations |-> <<>>]
  IN graded

\* _evaluate_performance; a recommendation is named by its first word.
_evaluate_performance(metrics) ==
  LET hp == metrics.hit_percentage
      graded ==
        IF hp >= 90 * PERCENT_UNIT THEN [grade |-> "Excellent", recommendations |-> <<>>]
        ELSE IF hp >= 80 * PERCENT_UNIT
        THEN [grade |-> "Good",
              recommendations |-> IF hp < 85 * PERCENT_UNIT THEN <<"Consider increasing cache timeout">> ELSE <<>>]
        ELSE IF hp >= 70 * PERCENT_UNIT
        THEN [grade |-> "Fair",
              recommendations |-> <<"Review cache keys", "Consider implementing cache warming", "Monitor cache patterns">>]
        ELSE [grade |-> "Poor",
              recommendations |-> <<"Investigate why cache misses are high", "Review cache invalidation",
                                    "Consider increasing cache size", "Profile application">>]
      \* if 'MB' in memory_str: mb = float(memory_str.split()[0]); if mb > 100
      heavy == metrics.memory_usage.unit = "MB" /\ metrics.memory_usage.value > 100 * 100
  IN IF heavy THEN [graded EXCEPT !.recommendations = Append(@, "Consider memory optimization")]
     ELSE graded

RECURSIVE Sum(_)
Sum(s) == IF s = <<>> THEN 0 ELSE Head(s) + Sum(Tail(s))

\* The dict a metrics function returns.
Dict(status) == [NoReturn EXCEPT !.kind = "dict", !.status = status]

\* The trend with the delta taken between the last two samples.
TrendOf_last_two(history) ==
  IF history = <<>> THEN [Dict("no_data") EXCEPT !.trend = "unknown"]
  ELSE LET recent == IF Len(history) >= trend_window
                     THEN SubSeq(history, Len(history) - trend_window + 1, Len(history))
                     ELSE history
           hit_percentages == [i \in 1..Len(recent) |-> recent[i].hit_percentage]
           average == [sum |-> Sum(hit_percentages), n |-> Len(hit_percentages)]
       IN IF Len(hit_percentages) < 2
          THEN [Dict("insufficient_data") EXCEPT !.average_hit_rate = average]
          ELSE LET first == hit_percentages[Len(hit_percentages) - 1]
                   last == hit_percentages[Len(hit_percentages)]
                   trend_value == last - first
               IN [Dict("success") EXCEPT
                     !.trend = IF trend_value > 5 * PERCENT_UNIT THEN "improving_significantly"
                               ELSE IF trend_value > 1 * PERCENT_UNIT THEN "improving"
                               ELSE IF trend_value < 0 - 5 * PERCENT_UNIT THEN "declining_significantly"
                               ELSE IF trend_value < 0 - 1 * PERCENT_UNIT THEN "declining"
                               ELSE "stable",
                     !.trend_value = trend_value, !.current_hit_rate = last,
                     !.average_hit_rate = average, !.data_points = Len(history)]

\* The body of get_cache_metrics_trend once the history is read.
TrendOf(history) ==
  IF history = <<>> THEN [Dict("no_data") EXCEPT !.trend = "unknown"]
  ELSE LET recent == IF Len(history) >= trend_window
                     THEN SubSeq(history, Len(history) - trend_window + 1, Len(history))
                     ELSE history
           hit_percentages == [i \in 1..Len(recent) |-> recent[i].hit_percentage]
           average == [sum |-> Sum(hit_percentages), n |-> Len(hit_percentages)]
       IN IF Len(hit_percentages) < 2
          THEN [Dict("insufficient_data") EXCEPT !.average_hit_rate = average]
          ELSE LET first == hit_percentages[1]
                   last == hit_percentages[Len(hit_percentages)]
                   trend_value == last - first
               IN [Dict("success") EXCEPT
                     !.trend = IF trend_value > 5 * PERCENT_UNIT THEN "improving_significantly"
                               ELSE IF trend_value > 1 * PERCENT_UNIT THEN "improving"
                               ELSE IF trend_value < 0 - 5 * PERCENT_UNIT THEN "declining_significantly"
                               ELSE IF trend_value < 0 - 1 * PERCENT_UNIT THEN "declining"
                               ELSE "stable",
                     !.trend_value = trend_value, !.current_hit_rate = last,
                     !.average_hit_rate = average, !.data_points = Len(history)]

\* ----------------------------------------------- cache metrics: the calls
\* Everything of the application's state the metrics functions leave alone.
listings == <<keysSupported, limit, db, nextId, dbVersion, clean, completed>>

\* cache.get('cache_metrics_history') or []
History(st) == IF HISTORY_KEY \in DOMAIN st THEN st[HISTORY_KEY].value ELSE <<>>

\* A metrics function is called; ticks is the number of clock readings the
\* call starts with.
CallMetrics(t, op, pc, metrics, ticks) ==
  /\ th[t].pc = "idle"
  /\ ops < limit
  /\ ops' = ops + 1
  /\ now' = now + ticks
  /\ th' = [th EXCEPT ![t] = [Idle EXCEPT !.pc = pc, !.op = op, !.metrics = metrics,
                                         !.before = DOMAIN store,
                                         !.startFresh = fresh, !.startHistory = History(store)]]
  /\ UNCHANGED <<store, listings, redis_client, redis_info, fresh>>

ReturnedValue(rec, value) ==
  [rec EXCEPT !.pc = "done", !.outcome = "returned", !.ret = value]

None == [NoReturn EXCEPT !.kind = "None"]
Number(n) == [NoReturn EXCEPT !.kind = "int", !.value = n]

\* return metrics
MetricsDict(metrics) ==
  [Dict(metrics.status) EXCEPT !.hits = metrics.hits, !.misses = metrics.misses,
                               !.hit_ratio = metrics.hit_ratio,
                               !.hit_percentage = metrics.hit_percentage]

\* Where control goes when _store_metrics_history returns (it returns None
\* and raises nothing).
StoredHistory(rec) ==
  IF rec.op = "_store_metrics_history" THEN ReturnedValue(rec, None)
  ELSE [rec EXCEPT !.pc = "evaluate"]

\* _store_metrics_history, from its first statement.
_store_metrics_history(t) ==
  \/ \* history = cache.get(history_key) or []
     /\ th[t].pc = "history_get"
     /\ \/ th' = [th EXCEPT ![t].pc = "history_set", ![t].history = History(store)]
        \/ \* cache.get raises; except Exception: logger.warning
           th' = [th EXCEPT ![t] = StoredHistory([th[t] EXCEPT !.getErr = TRUE])]
     /\ UNCHANGED <<store, listings, ops, redis>>
  \/ \* history.append(history_entry); truncate; cache.set(history_key, history, timeout=None)
     /\ th[t].pc = "history_set"
     /\ \/ /\ store' = Put(store, HISTORY_KEY, Appended(th[t].history, history_entry(th[t].metrics)), PERSISTENT)
           /\ th' = [th EXCEPT ![t] = StoredHistory([th[t] EXCEPT !.sets = @ + 1])]
           /\ fresh' = FALSE
        \/ /\ th' = [th EXCEPT ![t] = StoredHistory([th[t] EXCEPT !.storeErr = TRUE])]
           /\ UNCHANGED <<store, fresh>>
     /\ UNCHANGED <<listings, ops, redis_client, redis_info, now>>

\* The first definition of get_redis_cache_metrics (utils.py line 282).  The
\* module binds the name again further down, so importing callers never run
\* this body; it is applied here as a function of its own.
get_redis_cache_metrics_1(t) ==
  \/ \* metrics = {..., 'timestamp': datetime.now().isoformat()}
     CallMetrics(t, "get_redis_cache_metrics_1", "info", [NoMetrics EXCEPT !.timestamp = now + 1], 1)
  \/ /\ th[t].pc = "info"
     /\ \/ \* if not redis_client: metrics['message'] = ...; return metrics
           /\ ~redis_client
           /\ th' = [th EXCEPT ![t] = ReturnedValue(th[t], MetricsDict(th[t].metrics))]
        \/ \* redis_info = redis_client.info(); metrics.update({...})
           /\ redis_client
           /\ th' = [th EXCEPT ![t].pc = "history_get", ![t].metrics = UpdatedMetrics(@, redis_info)]
        \/ \* info() raises; except: metrics['message'] = ...; return 0
           /\ redis_client
           /\ th' = [th EXCEPT ![t] = ReturnedValue([th[t] EXCEPT !.repoErr = TRUE], Number(0))]
     /\ UNCHANGED <<store, listings, ops, redis>>
  \/ \* metrics['performance'] = _evaluate_performance(metrics);
     \* return total_requests if total_requests > 0 else 0
     /\ th[t].pc = "evaluate"
     /\ th' = [th EXCEPT ![t] = ReturnedValue([th[t] EXCEPT !.metrics.performance =
                                                 <<_evaluate_performance(th[t].metrics)>>], Number(0))]
     /\ UNCHANGED <<store, listings, ops, redis>>

\* get_redis_cache_metrics as the module exports it (utils.py line 373): pass.
get_redis_cache_metrics(t) ==
  \/ CallMetrics(t, "get_redis_cache_metrics", "pass", NoMetrics, 0)
  \/ /\ th[t].pc = "pass"
     /\ th' = [th EXCEPT ![t] = ReturnedValue(th[t], None)]
     /\ UNCHANGED <<store, listings, ops, redis>>

\* get_detailed_cache_analysis
get_detailed_cache_analysis(t) ==
  \/ CallMetrics(t, "get_detailed_cache_analysis", "analysis", NoMetrics, 0)
  \/ \* metrics = get_redis_cache_metrics() is None; metrics['status'] raises TypeError
     /\ th[t].pc = "analysis"
     /\ th' = [th EXCEPT ![t] = [th[t] EXCEPT !.pc = "done", !.outcome = "raised", !.ret = None]]
     /\ UNCHANGED <<store, listings, ops, redis>>

\* get_cache_metrics_trend
get_cache_metrics_trend(t) ==
  \/ CallMetrics(t, "get_cache_metrics_trend", "trend", NoMetrics, 0)
  \/ /\ th[t].pc = "trend"
     /\ \/ th' = [th EXCEPT ![t] = ReturnedValue([th[t] EXCEPT !.history = History(store)],
                                                 TrendOf(History(store)))]
        \/ \* cache.get raises; except Exception: return {'status': 'error', ...}
           th' = [th EXCEPT ![t] = ReturnedValue([th[t] EXCEPT !.getErr = TRUE], Dict("error"))]
     /\ UNCHANGED <<store, listings, ops, redis>>

\* reset_cache_metrics
reset_cache_metrics(t) ==
  \/ CallMetrics(t, "reset_cache_metrics", "resetstat", NoMetrics, 0)
  \/ /\ th[t].pc = "resetstat"
     /\ \/ \* if not redis_client: return {'status': 'error', ...}
           /\ ~redis_client
           /\ th' = [th EXCEPT ![t] = ReturnedValue(th[t], Dict("error"))]
           /\ UNCHANGED redis_info
        \/ \* redis_client.execute_command('CONFIG', 'RESETSTAT')
           /\ redis_client
           /\ redis_info' = [redis_info EXCEPT !.keyspace_hits = 0, !.keyspace_misses = 0]
           /\ th' = [th EXCEPT ![t].pc = "reset_delete"]
        \/ \* the command raises; except Exception: return {'status': 'error', ...}
           /\ redis_client
           /\ th' = [th EXCEPT ![t] = ReturnedValue([th[t] EXCEPT !.repoErr = TRUE], Dict("error"))]
           /\ UNCHANGED redis_info
     /\ UNCHANGED <<store, listings, ops, redis_client, now, fresh>>
  \/ \* cache.delete('cache_metrics_history'); return {'status': 'success', ...}
     /\ th[t].pc = "reset_delete"
     /\ \/ /\ store' = Remove(store, {HISTORY_KEY})
           /\ fresh' = (redis_info.keyspace_hits = 0 /\ redis_info.keyspace_misses = 0)
           /\ th' = [th EXCEPT ![t] = ReturnedValue(th[t], Dict("success"))]
        \/ /\ th' = [th EXCEPT ![t] = ReturnedValue([th[t] EXCEPT !.storeErr = TRUE], Dict("error"))]
           /\ UNCHANGED <<store, fresh>>
     /\ UNCHANGED <<listings, ops, redis_client, redis_info, now>>

\* ------------------------------------------------------------------- Next
Step(t) ==
  \/ get_all_properties(t)
  \/ get_all_with_fallback(t)
  \/ get_properties_by_location(t)
  \/ get_properties_by_price_range(t)
  \/ get_queryset(t)
  \/ get_object(t)
  \/ save_created(t)
  \/ save_updated(t)
  \/ delete(t)
  \/ amenities_changed(t)
  \/ Commit(t)
  \/ Rollback(t)
  \/ _clear_property_cache(t)
  \/ bulk_create_with_cache_invalidation(t)
  \/ Return(t)

\* Requests run concurrently; entries expire at any moment.
Next ==
  \/ \E t \in Threads : Step(t)
  \/ \E k \in DOMAIN store : Expire(k)

Spec == Init /\ [][Next]_vars

\* Requests run one at a time, on one worker; entries expire between requests.
Worker == CHOOSE t \in Threads : TRUE

NextSeq ==
  \/ Step(Worker)
  \/ \E k \in DOMAIN store : th[Worker].pc = "idle" /\ Expire(k)

SpecSeq == InitSeq /\ [][NextSeq]_vars

\* ------------------------------------------ cache metrics: the specifications
\* Number of metrics calls in one behaviour.
MaxMetricOps == 2
\* The server's hit and miss counters run up to this value.
MaxCount == 3

\* The largest value traffic moves a counter to while the metrics functions run.
MaxTraffic == 2

\* A sample with the given timestamp and hit_percentage.
Sample(timestamp, hp) ==
  [timestamp |-> timestamp, hit_percentage |-> hp,
   hits |-> hp, misses |-> 100 * PERCENT_UNIT - hp]

\* Changes of the hit percentage between two samples, in hundredths.
TrendDeltas == {0 - 600, 0 - 501, 0 - 500, 0 - 499, 0 - 101, 0 - 100, 0 - 99, 0,
                99, 100, 101, 200, 499, 500, 501, 1000}

\* n samples of 60 %, the newest stamped 0.
Steady(n) == [i \in 1..n |-> Sample(i - n, 60 * PERCENT_UNIT)]

\* Histories of fewer than two samples, of one sample short of max_history
\* and of max_history samples.
EdgeHistories == {<<>>, Steady(1), Steady(max_history - 1), Steady(max_history)}

\* Histories of two samples, and of eleven samples of which the first lies
\* outside the trend window and the last but one differs from the oldest
\* inside it.
TrendHistories ==
  {Append(Steady(1), Sample(1, 60 * PERCENT_UNIT + d)) : d \in TrendDeltas}
  \cup {<<Sample(0 - trend_window, 50 * PERCENT_UNIT)>> \o Steady(trend_window - 2)
          \o <<Sample(1, 70 * PERCENT_UNIT), Sample(2, 60 * PERCENT_UNIT + d)>> : d \in {0 - 501, 200, 1000}}

\* Arguments of a direct call of _evaluate_performance: every whole
\* percentage, the hundredths next to each threshold, and a memory report
\* on either side of 100 MB.
HitPercentages ==
  {p * PERCENT_UNIT : p \in 0..100}
  \cup {th0 * PERCENT_UNIT + d : th0 \in {70, 80, 85, 90}, d \in {0 - 1, 1}}

MemoryUsages == {_format_bytes(0), _format_bytes(150 * 1024 * 1024)}

\* _evaluate_performance(metrics), called on its own
evaluate_performance(t) ==
  \/ \E hp \in HitPercentages : \E memory_usage \in MemoryUsages :
       CallMetrics(t, "_evaluate_performance", "evaluate_only",
                   [NoMetrics EXCEPT !.status = "success", !.hit_percentage = hp,
                                     !.hit_ratio = hp, !.memory_usage = memory_usage], 0)
  \/ /\ th[t].pc = "evaluate_only"
     /\ LET evaluation == _evaluate_performance(th[t].metrics)
        IN th' = [th EXCEPT ![t] = ReturnedValue(th[t],
                    [Dict("none") EXCEPT !.grade = evaluation.grade,
                                         !.recommendations = evaluation.recommendations])]
     /\ UNCHANGED <<store, listings, ops, redis>>

\* _store_metrics_history(metrics), called on its own with the metrics of a
\* successful collection
store_metrics_history(t) ==
  \E d \in {0, 200} :
    CallMetrics(t, "_store_metrics_history", "history_get",
                [NoMetrics EXCEPT !.status = "success", !.timestamp = now + 1,
                                  !.hits = 60 * PERCENT_UNIT + d,
                                  !.misses = 40 * PERCENT_UNIT - d,
                                  !.total_operations = 100 * PERCENT_UNIT,
                                  !.hit_ratio = 60 * PERCENT_UNIT + d,
                                  !.hit_percentage = 60 * PERCENT_UNIT + d], 1)

\* The server counts a hit or a miss for every GET it serves, from any client.
Traffic ==
  /\ \/ /\ redis_info.keyspace_hits < MaxTraffic
        /\ redis_info' = [redis_info EXCEPT !.keyspace_hits = @ + 1]
     \/ /\ redis_info.keyspace_misses < MaxTraffic
        /\ redis_info' = [redis_info EXCEPT !.keyspace_misses = @ + 1]
  /\ fresh' = FALSE
  /\ UNCHANGED <<store, listings, th, ops, redis_client, now>>

\* The state the metrics functions start from, given the stored histories
\* and the counters of the server.
StartMetrics(histories, counts) ==
  /\ store \in {IF h = <<>> THEN <<>> ELSE Put(<<>>, HISTORY_KEY, h, PERSISTENT) : h \in histories}
  /\ keysSupported = TRUE
  /\ db \in SeedTables
  /\ nextId = Len(db) + 1
  /\ dbVersion = 0
  /\ th = [t \in Threads |-> Idle]
  /\ ops = 0
  /\ clean = FALSE
  /\ completed = 0
  /\ redis_client \in BOOLEAN
  /\ redis_info \in [keyspace_hits : counts, keyspace_misses : counts, used_memory : {0}]
  /\ now = 1
  /\ fresh = FALSE

\* The metrics functions called one at a time on one worker, while the
\* server's counters move with the traffic of the other requests.
MetricsStep(t) ==
  \/ get_redis_cache_metrics(t)
  \/ get_redis_cache_metrics_1(t)
  \/ _store_metrics_history(t)
  \/ get_detailed_cache_analysis(t)
  \/ get_cache_metrics_trend(t)
  \/ reset_cache_metrics(t)
  \/ Return(t)

InitMetrics == StartMetrics(EdgeHistories, {0}) /\ limit = MaxMetricOps

NextMetrics ==
  \/ MetricsStep(Worker)
  \/ Traffic

SpecMetrics == InitMetrics /\ [][NextMetrics]_vars

\* One function definition applied once, whatever the history and the
\* counters it finds.
UnitStep(t) ==
  \/ get_redis_cache_metrics_1(t)
  \/ store_metrics_history(t)
  \/ _store_metrics_history(t)
  \/ evaluate_performance(t)
  \/ get_cache_metrics_trend(t)

InitUnits == StartMetrics(EdgeHistories \cup TrendHistories, 0..MaxCount) /\ limit = 1

NextUnits == UnitStep(Worker)

SpecUnits == InitUnits /\ [][NextUnits]_vars

\* ------------------------------------------------ overlapping collections
\* Number of samples stored in one behaviour of overlapping collections.
MaxCollections == 2

\* Short stored histories, far below max_history.
ShortHistories == {<<>>, Steady(1), Steady(2)}

\* Two collections store their sample at the same time.
NextCollections ==
  \E t \in Threads : store_metrics_history(t) \/ _store_metrics_history(t) \/ Return(t)

InitCollections == StartMetrics(ShortHistories, {0}) /\ limit = MaxCollections

SpecCollections == InitCollections /\ [][NextCollections]_vars

\* --------------------------------------------------- the keys of two callers
\* One place name as callers may write it: in capitals, in small letters,
\* and with a tab between the words.
KeyLocations == { <<"N", " ", "Y">>, <<"n", " ", "y">>, <<"n", "\t", "y">> }

\* Two request threads look properties up by location.
NextKeys ==
  \E t \in Threads : get_properties_by_location_of(t, KeyLocations) \/ Return(t)

SpecKeys == Init /\ [][NextKeys]_vars

\* ------------------------------------------- two spellings behind one key
\* A place name written with a space and with an underscore.
AliasLocations == { <<"n", " ", "y">>, <<"n", "_", "y">> }

\* Two request threads look properties up by location, under either
\* spelling.
NextAliases ==
  \E t \in Threads : get_properties_by_location_of(t, AliasLocations) \/ Return(t)

SpecAliases == Init /\ [][NextAliases]_vars

\* ------------------------------------------- the invalidation monitor
\* The state after the detail view of the first seeded row was served: its
\* entry is cached.
Warm ==
  /\ keysSupported \in BOOLEAN
  /\ db \in SeedTables
  /\ store = Put(<<>>, EntityKey(1), [rows |-> <<Row(db, 1)>>, ver |-> 0], TTL_DETAIL)
  /\ nextId = Len(db) + 1
  /\ dbVersion = 0
  /\ th = [t \in Threads |-> Idle]
  /\ ops = 0
  /\ clean = FALSE
  /\ completed = 0

\* Mutations and their invalidations run beside requests that read the
\* invalidation statistics and the full listing.
StatsStep(t) ==
  \/ get_all_properties(t)
  \/ get_cache_invalidation_stats(t)
  \/ save_created(t)
  \/ save_updated(t)
  \/ delete(t)
  \/ amenities_changed(t)
  \/ Commit(t)
  \/ Rollback(t)
  \/ _clear_property_cache(t)
  \/ Return(t)

NextStats ==
  \/ \E t \in Threads : StatsStep(t)
  \/ \E k \in DOMAIN store : Expire(k)

InitStats == Warm /\ NoStatistics /\ limit = MaxOps

SpecStats == InitStats /\ [][NextStats]_vars

\* ------------------------------------------- overlapping invalidations
\* Number of mutations in one behaviour of overlapping invalidations.
MaxInvalidations == 3

\* Changes of the rows the table holds: their invalidations overlap on the
\* two request threads.
NextInvalidations ==
  \E t \in Threads :
    \/ save_updated(t)
    \/ delete(t)
    \/ amenities_changed(t)
    \/ Commit(t)
    \/ Rollback(t)
    \/ _clear_property_cache(t)
    \/ Return(t)

InitInvalidations == Warm /\ NoStatistics /\ limit = MaxInvalidations

SpecInvalidations == InitInvalidations /\ [][NextInvalidations]_vars

\* ------------------------------------------------ invalidate_property_cache
\* utils.invalidate_property_cache: exact names and patterns in one list,
\* each handed to cache.keys.
invalidate_cache_patterns == <<ALL_PROPERTIES, MetaKey(ALL_PROPERTIES)>> \o cache_patterns

\* A manual routine is called.
CallManual(t, op, pc, pattern) ==
  /\ th[t].pc = "idle"
  /\ ops < limit
  /\ ops' = ops + 1
  /\ th' = [th EXCEPT ![t] = [Idle EXCEPT !.pc = pc, !.op = op, !.i = 1, !.pattern = pattern,
                                         !.before = DOMAIN store]]
  /\ UNCHANGED <<store, keysSupported, limit, redis, db, nextId, dbVersion, clean, completed>>

\* Where the loop of invalidate_property_cache goes after pattern i; after
\* the last one: return invalidated_count.
NextInvalidatePattern(rec) ==
  IF rec.i = Len(invalidate_cache_patterns)
  THEN ReturnedValue([rec EXCEPT !.keys = <<>>], Number(rec.invalidated_count))
  ELSE [rec EXCEPT !.pc = "invalidate_keys", !.i = @ + 1, !.keys = <<>>]

invalidate_property_cache(t) ==
  \/ CallManual(t, "invalidate_property_cache", "invalidate_keys", <<>>)
  \/ \* keys = cache.keys(pattern)
     /\ th[t].pc = "invalidate_keys"
     /\ \/ /\ keysSupported
           /\ \E keys \in Orderings(Keys(store, invalidate_cache_patterns[th[t].i])) :
                th' = [th EXCEPT ![t] = IF keys = <<>> THEN NextInvalidatePattern(th[t])
                                        ELSE [th[t] EXCEPT !.pc = "invalidate_delete_many", !.keys = keys]]
        \/ \* except Exception: the AttributeError of a backend without
           \* keys(), or an error of the store; the loop goes on
           th' = [th EXCEPT ![t] = NextInvalidatePattern([th[t] EXCEPT !.storeErr = keysSupported \/ @])]
     /\ UNCHANGED <<store, keysSupported, limit, redis, db, nextId, dbVersion, ops, clean, completed>>
  \/ \* cache.delete_many(keys); invalidated_count += len(keys)
     /\ th[t].pc = "invalidate_delete_many"
     /\ \/ /\ store' = Remove(store, Range(th[t].keys))
           /\ th' = [th EXCEPT ![t] = NextInvalidatePattern(
                        [th[t] EXCEPT !.invalidated_count = @ + Len(th[t].keys)])]
        \/ /\ th' = [th EXCEPT ![t] = NextInvalidatePattern([th[t] EXCEPT !.storeErr = TRUE])]
           /\ UNCHANGED store
     /\ UNCHANGED <<keysSupported, limit, redis, db, nextId, dbVersion, ops, clean, completed>>

\* ------------------------------------------------- clear_all_property_cache
keys_to_delete == <<ALL_PROPERTIES, MetaKey(ALL_PROPERTIES)>>

\* patterns_to_delete with a third pattern that takes every key named
\* 'cache_...'.
patterns_to_delete_with_cache == << <<"p", "r", "o", "p", "e", "r", "t", "i", "e", "s", "_", "*">>, <<"p", "r", "o", "p", "e", "r", "t", "y", "_", "*">>, <<"c", "a", "c", "h", "e", "_", "*">> >>

patterns_to_delete == << <<"p", "r", "o", "p", "e", "r", "t", "i", "e", "s", "_", "*">>, <<"p", "r", "o", "p", "e", "r", "t", "y", "_", "*">> >>

\* An error of the store leaves clear_all_property_cache, which catches
\* AttributeError only.
ClearAllRaised(rec) ==
  [rec EXCEPT !.pc = "done", !.outcome = "raised", !.storeErr = TRUE]

\* Where the loop over patterns_to_delete goes after pattern i; after the
\* last one: return deleted_count.
NextClearAllPattern(rec) ==
  IF rec.i = Len(patterns_to_delete)
  THEN ReturnedValue([rec EXCEPT !.keys = <<>>], Number(rec.deleted_count))
  ELSE [rec EXCEPT !.pc = "clear_all_keys", !.i = @ + 1, !.keys = <<>>]

clear_all_property_cache(t) ==
  \/ CallManual(t, "clear_all_property_cache", "clear_all_delete", <<>>)
  \/ \* for key in keys_to_delete: if cache.delete(key): deleted_count += 1
     /\ th[t].pc = "clear_all_delete"
     /\ LET key == keys_to_delete[th[t].i]
            last == th[t].i = Len(keys_to_delete)
        IN \/ /\ store' = Remove(store, {key})
              /\ th' = [th EXCEPT ![t].deleted_count = IF key \in DOMAIN store THEN @ + 1 ELSE @,
                                  ![t].i = IF last THEN 1 ELSE @ + 1,
                                  ![t].pc = IF last THEN "clear_all_keys" ELSE "clear_all_delete"]
           \/ /\ th' = [th EXCEPT ![t] = ClearAllRaised(th[t])]
              /\ UNCHANGED store
     /\ UNCHANGED <<keysSupported, limit, redis, db, nextId, dbVersion, ops, clean, completed>>
  \/ \* keys = cache.keys(pattern)
     /\ th[t].pc = "clear_all_keys"
     /\ \/ /\ keysSupported
           /\ \E keys \in Orderings(Keys(store, patterns_to_delete[th[t].i])) :
                th' = [th EXCEPT ![t] = IF keys = <<>> THEN NextClearAllPattern(th[t])
                                        ELSE [th[t] EXCEPT !.pc = "clear_all_delete_many", !.keys = keys]]
        \/ \* except AttributeError: the loop is left, deleted_count returned
           /\ ~keysSupported
           /\ th' = [th EXCEPT ![t] = ReturnedValue(th[t], Number(th[t].deleted_count))]
        \/ /\ keysSupported
           /\ th' = [th EXCEPT ![t] = ClearAllRaised(th[t])]
     /\ UNCHANGED <<store, keysSupported, limit, redis, db, nextId, dbVersion, ops, clean, completed>>
  \/ \* cache.delete_many(keys); deleted_count += len(keys)
     /\ th[t].pc = "clear_all_delete_many"
     /\ \/ /\ store' = Remove(store, Range(th[t].keys))
           /\ th' = [th EXCEPT ![t] = NextClearAllPattern(
                        [th[t] EXCEPT !.deleted_count = @ + Len(th[t].keys)])]
        \/ /\ th' = [th EXCEPT ![t] = ClearAllRaised(th[t])]
           /\ UNCHANGED store
     /\ UNCHANGED <<keysSupported, limit, redis, db, nextId, dbVersion, ops, clean, completed>>

\* ------------------------------------------ PropertyCacheManager.clear_pattern
\* Patterns clear_pattern is called with.
ClearPatterns == { <<"p", "r", "o", "p", "e", "r", "t", "y", "_", "*">>, <<"p", "r", "o", "p", "e", "r", "t", "i", "e", "s", "_", "l", "o", "c", "a", "t", "i", "o", "n", "_", "*">> }

clear_pattern(t) ==
  \/ \E pattern \in ClearPatterns : CallManual(t, "clear_pattern", "clear_pattern_keys", pattern)
  \/ \* keys = cache.keys(pattern); if keys: ...; the function ends without
     \* a return statement when keys is empty
     /\ th[t].pc = "clear_pattern_keys"
     /\ \/ /\ keysSupported
           /\ \E keys \in Orderings(Keys(store, th[t].pattern)) :
                th' = [th EXCEPT ![t] = IF keys = <<>> THEN ReturnedValue(th[t], None)
                                        ELSE [th[t] EXCEPT !.pc = "clear_pattern_delete_many", !.keys = keys]]
        \/ \* except Exception: return 0
           th' = [th EXCEPT ![t] = ReturnedValue([th[t] EXCEPT !.storeErr = TRUE], Number(0))]
     /\ UNCHANGED <<store, keysSupported, limit, redis, db, nextId, dbVersion, ops, clean, completed>>
  \/ \* cache.delete_many(keys); return len(keys)
     /\ th[t].pc = "clear_pattern_delete_many"
     /\ \/ /\ store' = Remove(store, Range(th[t].keys))
           /\ th' = [th EXCEPT ![t] = ReturnedValue(th[t], Number(Len(th[t].keys)))]
        \/ /\ th' = [th EXCEPT ![t] = ReturnedValue([th[t] EXCEPT !.storeErr = TRUE], Number(0))]
           /\ UNCHANGED store
     /\ UNCHANGED <<keysSupported, limit, redis, db, nextId, dbVersion, ops, clean, completed>>

\* ------------------------------------------------- manual cache management
\* Number of operations in one behaviour of manual cache management.
MaxManualOps == 2

\* An invalidation event recorded earlier.
EarlierEvent == [property_id |-> 1, action |-> "updated", cache_keys_deleted |-> <<ALL_PROPERTIES>>]

\* The store after the listings, the views and the metrics have been
\* served and one earlier invalidation was recorded: an entry of every
\* shape, and the three bookkeeping entries.
PopulatedStore(d) ==
  LET rows == [rows |-> <<Row(d, 1)>>, ver |-> 0]
      listing == Put(Put(<<>>, ALL_PROPERTIES, rows, TTL_ALL),
                     MetaKey(ALL_PROPERTIES), Metadata(rows), TTL_ALL)
      shapes == Put(Put(listing, LocationKey(<<"N", " ", "Y">>), rows, TTL_LOCATION),
                    PriceRangeKey(IntArg(0), IntArg(5)), rows, TTL_PRICE)
      views == Put(Put(shapes, EntityKey(1), rows, TTL_DETAIL), PROPERTIES_LIST, rows, TTL_LIST)
      events == Put(Put(views, LAST_CACHE_INVALIDATION, EarlierEvent, TTL_LAST_INVALIDATION),
                    CACHE_INVALIDATION_COUNT, 1, PERSISTENT)
  IN Put(events, HISTORY_KEY, Steady(1), PERSISTENT)

Populated ==
  /\ keysSupported \in BOOLEAN
  /\ db \in SeedTables
  /\ store = PopulatedStore(db)
  /\ nextId = Len(db) + 1
  /\ dbVersion = 0
  /\ th = [t \in Threads |-> Idle]
  /\ ops = 0
  /\ clean = FALSE
  /\ completed = 1

\* The manual routines run beside one another and beside the invalidation
\* a saved row triggers.
ManualStep(t) ==
  \/ invalidate_property_cache(t)
  \/ clear_all_property_cache(t)
  \/ clear_pattern(t)
  \/ save_updated(t)
  \/ Commit(t)
  \/ _clear_property_cache(t)
  \/ Return(t)

NextManual == \E t \in Threads : ManualStep(t)

InitManual == Populated /\ NoStatistics /\ limit = MaxManualOps

SpecManual == InitManual /\ [][NextManual]_vars

TypeOK == ops \in 0..limit

\* -------------------------------------------------------------- the claims
SignalOps == {"save", "delete", "m2m"}
MutationOps == SignalOps \cup {"bulk_create"}
ShapeOps == {"get_all_properties", "get_properties_by_location",
             "get_properties_by_price_range", "get_object"}

\* Keys of the four read-through query shapes.
IsShapeKey(k) ==
  \/ k = ALL_PROPERTIES
  \/ \E location \in QueryLocations : k = LocationKey(location)
  \/ \E r \in QueryRanges : k = PriceRangeKey(r[1], r[2])
  \/ \E pk \in Ids : k = EntityKey(pk)

\* Thread t's committed mutation has run its invalidation callback to the end.
InvalidationReturned(t) ==
  /\ th[t].pc = "done" /\ th[t].op \in SignalOps /\ th[t].txn = "committed"

\* ... and no store operation of the callback raised.
InvalidationCompleted(t) == InvalidationReturned(t) /\ ~th[t].storeErr

\* C1: with requests run one at a time and a store that supports pattern
\* enumeration, every entry of the four read-through shapes that was present
\* when a mutation began is absent when its commit-triggered
\* _clear_property_cache has returned.
C1_EntryAbsentAfterInvalidation ==
  \A t \in Threads :
    (InvalidationCompleted(t) /\ keysSupported) =>
      \A k \in th[t].before : IsShapeKey(k) => k \notin DOMAIN store

C1_Witness ==
  \E t \in Threads :
    /\ InvalidationCompleted(t) /\ keysSupported
    /\ ALL_PROPERTIES \in th[t].before
    /\ \E k \in th[t].before : IsShapeKey(k) /\ k # ALL_PROPERTIES

\* C2: no step of a mutating operation removes a cache key before that
\* mutation is committed.
C2_DeletionOnlyAfterCommit ==
  [][\A t \in Threads :
       (th[t].op \in MutationOps /\ th'[t] # th[t] /\ DOMAIN store \ DOMAIN store' # {})
         => th[t].txn = "committed"]_vars

\* C3: once a read-through miss and a concurrent mutation's invalidation
\* have both finished, the reader's key does not hold a result fetched
\* before that mutation's commit.
C3_NoStaleEntryAfterInvalidation ==
  \A r, m \in Threads :
    ( /\ r # m
      /\ th[r].pc = "done" /\ th[r].op \in ShapeOps /\ th[r].outcome = "returned" /\ ~th[r].hit
      /\ ~th[r].getErr /\ ~th[r].repoErr /\ ~th[r].storeErr
      /\ InvalidationCompleted(m) /\ keysSupported
      /\ cache_key(th[r]) \in DOMAIN store )
    => store[cache_key(th[r])].value.ver >= th[m].commitVer

Invalidating(t) ==
  th[t].pc \in {"delete", "keys", "delete_many", "set_last", "get_count", "set_count"}

\* C5: when no invalidation is running, the stored invalidation counter
\* equals the number of invalidations that ran to their end.
C5_CounterCountsInvalidations ==
  (\A t \in Threads : ~Invalidating(t)) => InvalidationCount(store) = completed

\* C6: an invalidation that starts after a completed invalidation with no
\* cache write in between deletes no key, and still stores its event (with
\* an empty cache_keys_deleted) and adds one to the counter.
C6_InvalidationIdempotent ==
  \A t \in Threads :
    (InvalidationCompleted(t) /\ th[t].startClean) =>
      /\ th[t].deleted_keys = <<>>
      /\ LAST_CACHE_INVALIDATION \in DOMAIN store
      /\ store[LAST_CACHE_INVALIDATION].value =
           [property_id |-> th[t].cb.instance, action |-> action_type(th[t].cb),
            cache_keys_deleted |-> <<>>]
      /\ InvalidationCount(store) = th[t].startCount + 1

C6_Witness ==
  \E t \in Threads :
    InvalidationCompleted(t) /\ th[t].startClean /\ th[t].startCount > 0

\* C7: a step that leaves a signal-driven mutation pending or rolled back
\* changes no cache entry (last_cache_invalidation and
\* cache_invalidation_count included), and a rolled-back mutation takes no
\* further step but handing its outcome to the caller.
C7_RollbackRunsNoInvalidation ==
  [][\A t \in Threads :
       /\ (th'[t] # th[t] /\ th'[t].op \in SignalOps /\ th'[t].txn \in {"pending", "rolledback"})
            => (store' = store /\ completed' = completed)
       /\ th[t].txn = "rolledback" => th'[t] \in {th[t], Idle}]_vars

C7_Witness ==
  \E t \in Threads :
    /\ th[t].txn = "rolledback" /\ th[t].pc = "done"
    /\ ALL_PROPERTIES \in DOMAIN store

\* C8: a get_all_properties that finds the key absent makes one repository
\* fetch and one set, and 'all_properties' then holds the payload it
\* returns; one that finds the key present makes no fetch and no set and
\* returns the stored payload.
C8_OneFetchThenHit ==
  \A t \in Threads :
    ( /\ th[t].pc = "done" /\ th[t].op = "get_all_properties" /\ th[t].outcome = "returned"
      /\ ~th[t].getErr /\ ~th[t].repoErr /\ ~th[t].storeErr )
    => /\ ALL_PROPERTIES \in DOMAIN store
       /\ store[ALL_PROPERTIES].value = th[t].result
       /\ IF th[t].hit THEN th[t].fetches = 0 /\ th[t].sets = 0
          ELSE th[t].fetches = 1 /\ th[t].sets = 1
       /\ th[t].hit = (ALL_PROPERTIES \in th[t].before)

C8_Witness ==
  \E t \in Threads :
    /\ th[t].pc = "done" /\ th[t].op = "get_all_properties" /\ th[t].outcome = "returned"
    /\ th[t].hit /\ th[t].result.rows # <<>>

\* C9: when the repository fetch of get_all_properties fails, the error
\* reaches the caller and that step writes nothing to the store; no set was
\* made before it.
C9_FetchFailureWritesNothing ==
  [][\A t \in Threads :
       (th'[t] # th[t] /\ th'[t].op = "get_all_properties" /\ ~th'[t].fallback /\ th'[t].repoErr)
         => /\ store' = store
            /\ th'[t].pc = "done" /\ th'[t].outcome = "raised"
            /\ th'[t].sets = 0]_vars

C9_Witness ==
  \E t \in Threads :
    /\ th[t].pc = "done" /\ th[t].op = "get_all_properties" /\ ~th[t].fallback
    /\ th[t].repoErr /\ th[t].outcome = "raised"

\* C10: a read-through operation whose initial cache.get found the store
\* unreachable still returns a result to its caller.
C10_GetFailureDegrades ==
  \A t \in Threads :
    (th[t].pc = "done" /\ th[t].op \in ShapeOps /\ ~th[t].fallback /\ th[t].getErr)
      => th[t].outcome = "returned"

\* C11: a read-through operation whose cache.set (of the payload or of its
\* metadata) failed after a successful repository fetch still returns the
\* fetched payload to its caller and raises nothing.
C11_SetFailureReturnsPayload ==
  \A t \in Threads :
    ( /\ th[t].pc = "done" /\ th[t].op \in ShapeOps \cup {"get_queryset"} /\ ~th[t].fallback
      /\ th[t].storeErr /\ ~th[t].getErr /\ ~th[t].repoErr )
    => /\ th[t].outcome = "returned"
       /\ th[t].result = th[t].queryset

\* C12: every entry a read-through miss wrote carries the timeout of its
\* query shape, whatever the arguments of the call: 3600 s under
\* 'all_properties', 1800 s under 'properties_location_*', 900 s under
\* 'properties_price_*', 900 s under 'property_<id>', 300 s under
\* 'properties_list'.
C12_FixedTtlPerShape ==
  \A k \in DOMAIN store :
    /\ k = ALL_PROPERTIES => store[k].timeout = 3600
    /\ IsPrefix(LOCATION_PREFIX, k) => store[k].timeout = 1800
    /\ IsPrefix(PRICE_PREFIX, k) => store[k].timeout = 900
    /\ (\E pk \in Ids : k = EntityKey(pk)) => store[k].timeout = 900
    /\ k = PROPERTIES_LIST => store[k].timeout = 300

C12_Witness ==
  /\ \A r \in QueryRanges : PriceRangeKey(r[1], r[2]) \in DOMAIN store
  /\ \E k \in DOMAIN store :
        k = PROPERTIES_LIST \/ k = ALL_PROPERTIES \/ IsPrefix(LOCATION_PREFIX, k) \/ IsPrefix(PROPERTY_PREFIX, k)

\* The exact keys that were present when thread t's mutation began, in the
\* order _clear_property_cache deletes them.
ExactKeysBefore(t) ==
  (IF ALL_PROPERTIES \in th[t].before THEN <<ALL_PROPERTIES>> ELSE <<>>)
    \o (IF MetaKey(ALL_PROPERTIES) \in th[t].before THEN <<MetaKey(ALL_PROPERTIES)>> ELSE <<>>)

\* C13: on a store without pattern enumeration, a completed commit-triggered
\* invalidation has left every pattern-matched entry in place, has deleted
\* 'all_properties' and 'all_properties_meta', has stored an event that
\* lists exactly the exact keys it deleted, and has added one to the counter.
C13_NoEnumerationStillRecords ==
  \A t \in Threads :
    (InvalidationCompleted(t) /\ ~keysSupported) =>
      /\ \A k \in th[t].before :
           (k # ALL_PROPERTIES /\ k # MetaKey(ALL_PROPERTIES)) => k \in DOMAIN store
      /\ ALL_PROPERTIES \notin DOMAIN store
      /\ MetaKey(ALL_PROPERTIES) \notin DOMAIN store
      /\ LAST_CACHE_INVALIDATION \in DOMAIN store
      /\ store[LAST_CACHE_INVALIDATION].value =
           [property_id |-> th[t].write.id, action |-> action_type(th[t].cb),
            cache_keys_deleted |-> ExactKeysBefore(t)]
      /\ InvalidationCount(store) = th[t].startCount + 1

C13_Witness ==
  \E t \in Threads :
    /\ InvalidationCompleted(t) /\ ~keysSupported
    /\ Len(ExactKeysBefore(t)) = 2
    /\ \E k \in th[t].before : IsShapeKey(k) /\ k # ALL_PROPERTIES

\* Thread t runs the first definition of get_redis_cache_metrics and has
\* read the server's statistics.
Collected(t) ==
  /\ th[t].op = "get_redis_cache_metrics_1"
  /\ th[t].pc \in {"history_get", "history_set", "evaluate", "done"}
  /\ redis_client /\ ~th[t].repoErr

\* C14: the hit ratio a collection computes from the counters hits and
\* misses is hits / (hits + misses) to four decimals, lies between 0 and 1,
\* and is 0 (the collection going on as usual) when both counters are 0;
\* hit_percentage is that ratio times 100 and lies between 0 and 100.
C14_HitRatioInRange ==
  \A t \in Threads :
    Collected(t) =>
      LET m == th[t].metrics
          total == redis_info.keyspace_hits + redis_info.keyspace_misses
          \* 10000 * hit_ratio and 100 * hit_percentage, as stored
          ratio == m.hit_ratio
          percentage == m.hit_percentage
          error == ratio * total - redis_info.keyspace_hits * 10000
      IN /\ m.status = "success"
         /\ m.hits = redis_info.keyspace_hits /\ m.misses = redis_info.keyspace_misses
         /\ ratio >= 0 /\ ratio <= 10000
         /\ 2 * error <= total /\ 0 - 2 * error <= total
         /\ total = 0 => (ratio = 0 /\ percentage = 0)
         /\ percentage * 10000 = ratio * 100 * 100
         /\ percentage >= 0 /\ percentage <= 100 * 100

C14_Witness ==
  \E t \in Threads :
    /\ Collected(t) /\ th[t].pc = "done"
    /\ th[t].metrics.hits = 2 /\ th[t].metrics.misses = 1
    /\ th[t].metrics.hit_ratio = 6667

\* _evaluate_performance has returned to thread t.
Evaluated(t) == th[t].op = "_evaluate_performance" /\ th[t].pc = "done"

\* C15: _evaluate_performance grades a hit_percentage 'Excellent' exactly
\* when it is at least 90, 'Good' exactly when it is at least 80 and below
\* 90, 'Fair' exactly when it is at least 70 and below 80, and 'Poor'
\* exactly when it is below 70 (percentages in hundredths).
C15_GradeThresholds ==
  \A t \in Threads :
    Evaluated(t) =>
      LET hp == th[t].metrics.hit_percentage
          grade == th[t].ret.grade
      IN /\ grade \in {"Excellent", "Good", "Fair", "Poor"}
         /\ (grade = "Excellent") <=> (hp >= 9000)
         /\ (grade = "Good") <=> (hp >= 8000 /\ hp < 9000)
         /\ (grade = "Fair") <=> (hp >= 7000 /\ hp < 8000)
         /\ (grade = "Poor") <=> (hp < 7000)

C15_Witness ==
  \E t \in Threads :
    Evaluated(t) /\ th[t].metrics.hit_percentage = 8000 /\ th[t].ret.grade = "Good"

\* get_cache_metrics_trend has returned to thread t, which read the history.
TrendReturned(t) ==
  th[t].op = "get_cache_metrics_trend" /\ th[t].pc = "done" /\ ~th[t].getErr

\* C16: get_cache_metrics_trend never raises; on an empty history it
\* returns status 'no_data', on a history of one sample 'insufficient_data'
\* with that sample's hit_percentage as the average, and otherwise it
\* classifies delta = (hit_percentage of the newest sample) - (hit_percentage
\* of the oldest of the last 10 samples): above 5 improving_significantly,
\* above 1 up to 5 improving, below -5 declining_significantly, from -5 to
\* below -1 declining, else stable (percentages in hundredths).
C16_TrendClassification ==
  \A t \in Threads :
    /\ (th[t].op = "get_cache_metrics_trend" /\ th[t].pc = "done")
         => (th[t].outcome = "returned" /\ th[t].ret.kind = "dict")
    /\ TrendReturned(t) =>
         LET h == th[t].startHistory
             n == Len(h)
             oldest == IF n >= 10 THEN h[n - 9] ELSE h[1]
             delta == h[n].hit_percentage - oldest.hit_percentage
             r == th[t].ret
         IN IF n = 0 THEN r.status = "no_data"
            ELSE IF n = 1
            THEN /\ r.status = "insufficient_data"
                 /\ r.average_hit_rate.sum = h[1].hit_percentage * r.average_hit_rate.n
            ELSE /\ r.status = "success"
                 /\ r.trend_value = delta
                 /\ (r.trend = "improving_significantly") <=> (delta > 500)
                 /\ (r.trend = "improving") <=> (delta > 100 /\ delta <= 500)
                 /\ (r.trend = "declining_significantly") <=> (delta < 0 - 500)
                 /\ (r.trend = "declining") <=> (delta >= 0 - 500 /\ delta < 0 - 100)
                 /\ (r.trend = "stable") <=> (delta >= 0 - 100 /\ delta <= 100)

C16_Witness ==
  \E t \in Threads :
    /\ TrendReturned(t)
    /\ Len(th[t].startHistory) > 10
    /\ th[t].startHistory[1].hit_percentage # th[t].startHistory[2].hit_percentage
    /\ th[t].ret.trend = "improving"

\* The samples of h carry increasing timestamps: they are in collection order.
InCollectionOrder(h) == \A i \in 1..(Len(h) - 1) : h[i].timestamp < h[i + 1].timestamp

\* C17: the stored history never has more than 1440 samples and is in
\* collection order: it starts so, a step that stores a sample appends it to
\* the history, dropping exactly the oldest sample when the history already
\* had 1440, and no other step changes the history except a reset, which
\* removes it.
C17_HistoryBoundedFifo ==
  /\ Len(History(store)) <= 1440 /\ InCollectionOrder(History(store))
  /\ [][LET h == History(store)
            h2 == History(store')
        IN /\ h2 # h => (Len(h2) <= 1440 /\ InCollectionOrder(h2))
           /\ \A t \in Threads :
                (th[t].pc = "history_set" /\ th'[t].sets = th[t].sets + 1) =>
                  LET sample == history_entry(th[t].metrics)
                  IN /\ sample.timestamp > 0
                     /\ h2 = IF Len(h) < 1440 THEN h \o <<sample>> ELSE Tail(h) \o <<sample>>
           /\ (\A t \in Threads : ~(th[t].pc = "history_set" /\ th'[t].sets = th[t].sets + 1)) =>
                (h2 = h \/ (h2 = <<>> /\ \E t \in Threads : th[t].pc = "reset_delete"))]_vars

C17_Witness ==
  LET h == History(store)
  IN /\ Len(h) = 1440
     /\ h[1].timestamp = 3 - 1440
     /\ h[1439].timestamp > 0 /\ h[1440].timestamp > h[1439].timestamp

\* Thread t's call has returned or raised.
Finished(t, op) == th[t].op = op /\ th[t].pc = "done"

\* C18: a reset_cache_metrics that returns 'success' has removed the
\* history; a trend asked for right after it returns 'no_data', and a
\* collection made right after it, before the server counted anything,
\* reports hits = 0, misses = 0 and a hit ratio of 0.  A reset that fails
\* returns 'error' and leaves the history as it was.
C18_ResetClearsCountersAndHistory ==
  \A t \in Threads :
    /\ Finished(t, "reset_cache_metrics") =>
         /\ th[t].outcome = "returned" /\ th[t].ret.status \in {"success", "error"}
         /\ th[t].ret.status = "success" => HISTORY_KEY \notin DOMAIN store
         /\ th[t].ret.status = "error" => History(store) = th[t].startHistory
    /\ (Finished(t, "get_cache_metrics_trend") /\ th[t].startFresh /\ ~th[t].getErr)
         => th[t].ret.status = "no_data"
    /\ ( /\ Finished(t, "get_redis_cache_metrics") \/ Finished(t, "get_redis_cache_metrics_1")
         /\ th[t].startFresh /\ ~th[t].repoErr
         /\ redis_info.keyspace_hits = 0 /\ redis_info.keyspace_misses = 0 )
         => /\ th[t].ret.kind = "dict" /\ th[t].ret.status = "success"
            /\ th[t].ret.hits = 0 /\ th[t].ret.misses = 0 /\ th[t].ret.hit_ratio = 0

\* C19: get_redis_cache_metrics never raises and returns a status record:
\* status 'error' when the statistics are unavailable, status 'success' with
\* hits, misses, hit_ratio and hit_percentage otherwise; and
\* get_detailed_cache_analysis, which passes that record on, does not raise.
C19_CollectionReturnsStatusRecord ==
  \A t \in Threads :
    /\ Finished(t, "get_redis_cache_metrics") =>
         /\ th[t].outcome = "returned"
         /\ th[t].ret.kind = "dict"
         /\ th[t].ret.status = IF redis_client THEN "success" ELSE "error"
         /\ th[t].ret.status = "success" =>
              /\ th[t].ret.hits = redis_info.keyspace_hits
              /\ th[t].ret.misses = redis_info.keyspace_misses
    /\ Finished(t, "get_detailed_cache_analysis") => th[t].outcome = "returned"

\* The whitespace characters of str.isspace() that a caller can type.
Whitespace == {" ", "\t", "\n", "\r"}

\* Locations a and b differ only in the case of letters and in which
\* whitespace character stands at a position.
SameButCaseAndWhitespace(a, b) ==
  /\ Len(a) = Len(b)
  /\ \A i \in 1..Len(a) :
       \/ a[i] = b[i]
       \/ a[i] \in Whitespace /\ b[i] \in Whitespace
       \/ \E j \in 1..Len(UpperAlpha) : {a[i], b[i]} = {UpperAlpha[j], LowerAlpha[j]}

\* C20: two by-location lookups whose locations differ only in letter case
\* or in the whitespace character between the words use the same cache key.
C20_LocationKeyNormalized ==
  \A t, u \in Threads :
    ( /\ th[t].op = "get_properties_by_location" /\ th[u].op = "get_properties_by_location"
      /\ SameButCaseAndWhitespace(th[t].arg.location, th[u].arg.location) )
    => cache_key(th[t]) = cache_key(th[u])

\* C21: a by-price-range call made when the store holds the entry of a call
\* with numerically equal bounds is a cache hit, whatever literal form
\* (integer or decimal) either call gave its bounds in.
C21_PriceKeyByNumericValue ==
  \A t \in Threads :
    ( /\ th[t].op = "get_properties_by_price_range" /\ th[t].pc \notin {"idle", "get"}
      /\ ~th[t].getErr
      /\ \E r \in QueryRanges :
           /\ r[1].val = th[t].arg.min_price.val /\ r[2].val = th[t].arg.max_price.val
           /\ PriceRangeKey(r[1], r[2]) \in th[t].before )
    => th[t].hit

\* C24: whenever get_all_properties, get_properties_by_location or
\* get_properties_by_price_range has called cache.set after a miss, the value
\* it passed is the evaluated result, fetched before the call, and not the
\* unevaluated query.
C24_SetIsPassedEvaluatedRows ==
  \A t \in Threads :
    ( /\ th[t].op \in {"get_all_properties", "get_properties_by_location",
                       "get_properties_by_price_range"}
      /\ th[t].pc \in {"set", "setmeta"} )
    => th[t].passed = "rows"

\* get_cache_invalidation_stats has returned its dict to thread s.
StatsReturned(s) ==
  /\ th[s].op = "get_cache_invalidation_stats"
  /\ th[s].pc = "done" /\ th[s].outcome = "returned"

\* C22: a get_cache_invalidation_stats that reports total_invalidations > 0
\* reports a last_invalidation that is present, and when no invalidation
\* completed while it ran, that event carries the property id and the
\* action of the invalidation that completed last.
C22_LastInvalidationIsMostRecent ==
  \A s \in Threads :
    (StatsReturned(s) /\ th[s].stats.total_invalidations > 0) =>
      /\ th[s].stats.last_invalidation # NoEvent
      /\ \A m \in Threads :
           ( /\ InvalidationCompleted(m) /\ th[m].rank = completed
             /\ th[s].startCompleted = completed )
           => /\ th[s].stats.last_invalidation.property_id = th[m].cb.instance
              /\ th[s].stats.last_invalidation.action = action_type(th[m].cb)

\* C23: no step of any execution, overlapping invalidations included, lowers
\* the value stored under 'cache_invalidation_count'.
C23_CounterNeverDecreases ==
  [][InvalidationCount(store') >= InvalidationCount(store)]_vars

\* A read-through miss of thread t has just completed with no failure.
MissCompleted(t) ==
  /\ th[t].pc = "done" /\ th[t].outcome = "returned" /\ ~th[t].hit
  /\ ~th[t].getErr /\ ~th[t].repoErr /\ ~th[t].storeErr

\* C25: when a miss of get_all_properties, get_properties_by_location or
\* get_properties_by_price_range has completed without store failure, its
\* key K and K + '_meta' are both present with the same timeout, and the
\* metadata's count is the number of rows of the payload.
C25_SameMissProtocol ==
  \A t \in Threads :
    ( /\ th[t].op \in {"get_all_properties", "get_properties_by_location",
                       "get_properties_by_price_range"}
      /\ MissCompleted(t) )
    => LET K == cache_key(th[t])
       IN /\ K \in DOMAIN store
          /\ MetaKey(K) \in DOMAIN store
          /\ store[MetaKey(K)].timeout = store[K].timeout
          /\ store[MetaKey(K)].value.count = Len(store[K].value.rows)

\* C26: a call of get_redis_cache_metrics that can read the server's
\* counters has appended exactly one sample to the stored history when it
\* returns: the history is one longer than when the call began, or still
\* 1440 long, and one long when the call began right after a reset.
C26_EachCollectionAppendsOneSample ==
  \A t \in Threads :
    (Finished(t, "get_redis_cache_metrics") /\ redis_client) =>
      LET before == Len(th[t].startHistory)
      IN /\ Len(History(store)) = IF before < 1440 THEN before + 1 ELSE 1440
         /\ th[t].startFresh => Len(History(store)) = 1

\* C27: when a delete, a key enumeration or a bulk delete of a
\* commit-triggered invalidation raises (the store being unreachable), the
\* invalidation continues: the step leaves it inside _clear_property_cache,
\* still ahead of the storing of its event and of the counter.
C27_DeletionFailureStillRecords ==
  [][\A t \in Threads :
       ( /\ th[t].pc \in {"delete", "keys", "delete_many"}
         /\ ~th[t].storeErr /\ th'[t].storeErr )
       => th'[t].pc \in {"delete", "keys", "delete_many", "set_last"}]_vars

\* C28: no step of a commit-triggered _clear_property_cache, failing or not,
\* changes the Property table or undoes the commit, and when the function
\* ends nothing has been raised to the code that performed the mutation.
C28_InvalidationFailureContained ==
  [][\A t \in Threads :
       (Invalidating(t) /\ th'[t] # th[t]) =>
         /\ db' = db /\ dbVersion' = dbVersion
         /\ th'[t].txn = "committed"
         /\ th'[t].pc = "done" => th'[t].outcome = "returned"]_vars

C28_Witness ==
  \E t \in Threads :
    /\ InvalidationReturned(t) /\ th[t].storeErr /\ th[t].write.kind = "update"
    /\ db[th[t].write.id] = th[t].write.values

\* C30: a change of the amenities relation, which notifies the receiver with
\* pre_<verb> and then post_<verb>, has exactly one invalidation scheduled
\* while it is pending (the one of the post_ notification); nothing is
\* invalidated while it is pending or once it is rolled back; once it is
\* committed that one invalidation runs, and the event it stores is the
\* relation change of that Property.
C30_RelationChangeSchedulesOnePerPost ==
  [][\A t \in Threads :
       (th'[t].op = "m2m" /\ th'[t] # th[t]) =>
         LET scheduled == Callback(th'[t].write.id, FALSE, FALSE, TRUE)
         IN /\ th'[t].pc = "pending" => th'[t].on_commit = <<scheduled>>
            /\ th'[t].txn \in {"pending", "rolledback"} =>
                 /\ store' = store /\ completed' = completed
                 /\ th'[t].pc \in {"pending", "done"}
            /\ th'[t].txn = "committed" =>
                 /\ th'[t].on_commit = <<>> /\ th'[t].cb = scheduled
            /\ (th[t].pc = "set_last" /\ th'[t].pc = "get_count") =>
                 /\ store'[LAST_CACHE_INVALIDATION].value.property_id = th'[t].write.id
                 /\ store'[LAST_CACHE_INVALIDATION].value.action = "M2M relationship changed"]_vars

C30_Witness ==
  \E t, u \in Threads :
    /\ th[t].op = "m2m" /\ InvalidationCompleted(t)
    /\ th[u].op = "m2m" /\ th[u].txn = "rolledback"

\* C29: a get_all_with_fallback whose repository fetch inside
\* get_all_properties failed ends with that failure raised to its caller,
\* and not with a result returned.
C29_FallbackSurfacesRepositoryFailure ==
  \A t \in Threads :
    (th[t].pc = "done" /\ th[t].op = "get_all_properties" /\ th[t].fallback /\ th[t].repoErr)
      => th[t].outcome = "raised"

\* The label the spec gives the lifecycle event that triggered a mutation.
TriggerLabel(write) ==
  IF write.kind = "create" THEN "created"
  ELSE IF write.kind = "update" THEN "updated"
  ELSE IF write.kind = "delete" THEN "deleted"
  ELSE "M2M relationship changed"

\* C31: with requests run one at a time, the event a completed invalidation
\* has stored carries the id of the mutated Property and the one label of
\* its trigger: 'created' for a creating save, 'updated' for a save of an
\* existing Property, 'deleted' for a delete, 'M2M relationship changed' for
\* a relation change.
C31_ActionMatchesTrigger ==
  \A t \in Threads :
    InvalidationCompleted(t) =>
      /\ LAST_CACHE_INVALIDATION \in DOMAIN store
      /\ store[LAST_CACHE_INVALIDATION].value.property_id = th[t].write.id
      /\ store[LAST_CACHE_INVALIDATION].value.action = TriggerLabel(th[t].write)
      /\ th[t].write.kind \in {"create", "update", "delete", "m2m"}

C31_Witness ==
  \E t \in Threads :
    /\ InvalidationCompleted(t) /\ th[t].write.kind = "delete"
    /\ store[LAST_CACHE_INVALIDATION].value.action = "deleted"
    /\ InvalidationCount(store) > 1

\* C32: in every reachable state the metadata entry is present only while
\* its parent is: 'all_properties_meta' in the store implies 'all_properties'
\* in the store, across read-through fills, signal-driven invalidation, the
\* bulk creation and expiry.
C32_MetadataOnlyWithParent ==
  MetaKey(ALL_PROPERTIES) \in DOMAIN store => ALL_PROPERTIES \in DOMAIN store

\* C33: the recommendation list _evaluate_performance returns is a function
\* of the grade alone: any other metrics that receive the same grade (82 and
\* 87 are both 'Good') receive the same list.
C33_RecommendationsFixedPerGrade ==
  \A t \in Threads :
    Evaluated(t) =>
      \A hp \in HitPercentages : \A memory_usage \in MemoryUsages :
        LET other == _evaluate_performance([NoMetrics EXCEPT !.status = "success", !.hit_percentage = hp,
                                                             !.hit_ratio = hp, !.memory_usage = memory_usage])
        IN other.grade = th[t].ret.grade => other.recommendations = th[t].ret.recommendations

\* The key is in the scope the two invalidation routines share.
InInvalidationScope(k) ==
  \E i \in 1..Len(invalidate_cache_patterns) : GlobMatch(invalidate_cache_patterns[i], k)

\* Thread t ran the only operation of the behaviour so far, an invalidation
\* by the manual routine or by a signal, from the populated store, and no
\* store operation failed.
SoleInvalidation(t) ==
  /\ ops = 1
  /\ ~th[t].storeErr
  /\ \/ Finished(t, "invalidate_property_cache")
     \/ InvalidationCompleted(t)

\* C34: invalidate_property_cache and the signal-driven _clear_property_cache
\* are equivalent on the key space: run from the same store, with or
\* without pattern enumeration, each leaves no key of the shared scope and
\* every other entry as it was.
C34_ManualAndSignalInvalidationAgree ==
  \A t \in Threads :
    SoleInvalidation(t) =>
      store = Remove(PopulatedStore(db), {k \in DOMAIN PopulatedStore(db) : InInvalidationScope(k)})

\* The keys thread t records or counts as deleted in this step.
NewlyRecorded(t) ==
  IF \/ (th[t].pc = "delete_many" /\ th'[t].deleted_keys # th[t].deleted_keys)
     \/ (th[t].pc = "invalidate_delete_many" /\ th'[t].invalidated_count # th[t].invalidated_count)
     \/ (th[t].pc = "clear_all_delete_many" /\ th'[t].deleted_count # th[t].deleted_count)
  THEN Range(th[t].keys) ELSE {}

\* C35: the keys an invalidation records as deleted (the event's
\* cache_keys_deleted, the counts invalidate_property_cache and
\* clear_all_property_cache return) are keys this invalidation removed:
\* every key recorded by a step was in the store until that step.
C35_RecordedKeysWereRemoved ==
  [][\A t \in Threads : NewlyRecorded(t) \subseteq DOMAIN store]_vars

\* The keys of the invalidation bookkeeping and of the metrics history.
BookkeepingKeys == {CACHE_INVALIDATION_COUNT, LAST_CACHE_INVALIDATION, HISTORY_KEY}

\* C36: no invalidation routine (_clear_property_cache,
\* invalidate_property_cache, clear_all_property_cache) deletes
\* 'cache_invalidation_count', 'last_cache_invalidation' or
\* 'cache_metrics_history': a bookkeeping key that is stored stays stored
\* over every step of the manual and signal-driven invalidations.
C36_BookkeepingKeysSurvive ==
  [][(BookkeepingKeys \cap DOMAIN store) \subseteq DOMAIN store']_vars

C36_Witness ==
  /\ BookkeepingKeys \subseteq DOMAIN store
  /\ \A k \in DOMAIN store : k \in BookkeepingKeys
  /\ \E t \in Threads : Finished(t, "clear_all_property_cache") /\ th[t].ret.value > 4
  /\ \E t \in Threads : InvalidationCompleted(t)

\* C37: an empty result set is cached like any other: a read whose key
\* holds a stored empty result when the read is called is a hit that
\* returns the empty result without calling the repository (reads run one
\* at a time, so the entry found at the call is the one found by the get).
C37_EmptyResultIsHit ==
  \A t \in Threads :
    ( /\ th[t].pc = "done" /\ th[t].op \in ShapeOps
      /\ ~th[t].getErr
      /\ cache_key(th[t]) \in th[t].before
      /\ cache_key(th[t]) \in DOMAIN store
      /\ store[cache_key(th[t])].value.rows = <<>> ) =>
        /\ th[t].hit
        /\ th[t].fetches = 0
        /\ th[t].outcome = "returned"
        /\ th[t].result.rows = <<>>

C37_Witness ==
  \E t \in Threads :
    /\ Finished(t, "get_properties_by_location")
    /\ cache_key(th[t]) \in th[t].before
    /\ th[t].hit /\ th[t].fetches = 0
    /\ th[t].result.rows = <<>>
    /\ db # <<>>

\* C38: a by-location hit returns the caller's own query result: the rows a
\* hit hands back are the rows the caller's filter selects from the table,
\* also when another location that maps to the same key ("n y", "n_y")
\* filled the entry (the table does not change meanwhile).
C38_HitReturnsOwnQueryResult ==
  \A t \in Threads :
    (Finished(t, "get_properties_by_location") /\ th[t].hit) =>
      th[t].result.rows \in FetchByLocation(db, th[t].arg.location)

\* Both threads have stored their sample, neither met a store error, and
\* no call came before these two.
BothStored ==
  /\ ops = 2
  /\ \A t \in Threads :
       Finished(t, "_store_metrics_history") /\ ~th[t].getErr /\ ~th[t].storeErr

\* C39: no metrics sample is lost when two collections overlap: after two
\* interleaved _store_metrics_history calls on a history of length n < 1439,
\* the stored history has length n + 2 and contains both samples.
C39_NoSampleLost ==
  BothStored =>
    LET first == CHOOSE t \in Threads : \A u \in Threads : Len(th[t].startHistory) <= Len(th[u].startHistory)
        n == Len(th[first].startHistory)
    IN n < max_history - 1 =>
         /\ Len(History(store)) = n + 2
         /\ \A t \in Threads : history_entry(th[t].metrics) \in Range(History(store))

\* C40: PropertyCacheManager.clear_pattern returns the number of keys it
\* cleared for every outcome: the count of the matching keys when some
\* match, and 0 both when no key matches and when the store raises.
C40_ClearPatternReturnsCount ==
  \A t \in Threads :
    Finished(t, "clear_pattern") =>
      /\ th[t].ret.kind = "int"
      /\ th[t].storeErr => th[t].ret.value = 0
      /\ (~th[t].storeErr /\ th[t].keys = <<>>) => th[t].ret.value = 0
      /\ (~th[t].storeErr /\ th[t].keys # <<>>) => th[t].ret.value = Len(th[t].keys)

====
